---------------------------- MODULE Spec2Model ----------------------------
(***************************************************************************)
(* Multi-taxi collaboration: the grid graph (EnvGraph), the per-taxi       *)
(* wrapper (Taxi), the centralized Controller with its three transfer      *)
(* point strategies, the collaboration experiment drivers and the          *)
(* decentralized message rounds.                                           *)
(*                                                                         *)
(* Cells are <<row, col>> with 0-based coordinates as in the source; graph *)
(* nodes are the 0-based indices row * cols + col.  Python lists are       *)
(* sequences, so Python index i is TLA+ index i + 1.                       *)
(***************************************************************************)
EXTENDS Integers, Sequences, FiniteSets, TLC

VARIABLES
    desc,     \* taxi_env.desc: the map description, rows of characters
    graph,    \* EnvGraph built from desc: [rows, cols, adj]
    state,    \* taxi_env.state: [taxis_locations, fuels, passengers_start_location,
              \*                  passengers_destinations, passengers_status]
    taxis,    \* the Taxi objects: [actions_queue, assigned_passengers, communication_channel]
    inp,      \* arguments of the call under study
    ret,      \* what the calls returned so far
    nsteps,   \* number of calls of taxi_env.step so far (SpecTaxi: of planning calls)
    pc        \* position of the driver

vars == <<desc, graph, state, taxis, inp, ret, nsteps, pc>>

-----------------------------------------------------------------------------
(* Bounds of the model *)

MaxFuel == 3

-----------------------------------------------------------------------------
(* Map descriptions, as taxi_env.desc.astype(str) hands them to EnvGraph:  *)
(* a border row, one row per grid row, a border row; cell (r, c) sits at    *)
(* character 2c+1 of row r+1, the mark east of it at character 2c+2.       *)

Map1x1 == << <<"+","-","+">>,
             <<"|"," ","|">>,
             <<"+","-","+">> >>

Map1x3 == << <<"+","-","-","-","-","-","+">>,
             <<"|"," ",":"," ",":"," ","|">>,
             <<"+","-","-","-","-","-","+">> >>

Map3x1 == << <<"+","-","+">>,
             <<"|"," ","|">>,
             <<"|"," ","|">>,
             <<"|"," ","|">>,
             <<"+","-","+">> >>

Map2x2 == << <<"+","-","-","-","+">>,
             <<"|"," ","|"," ","|">>,
             <<"|"," ",":"," ","|">>,
             <<"+","-","-","-","+">> >>

Map2x3 == << <<"+","-","-","-","-","-","+">>,
             <<"|"," ",":"," ","|"," ","|">>,
             <<"|"," ",":"," ",":"," ","|">>,
             <<"+","-","-","-","-","-","+">> >>

Map3x3 == << <<"+","-","-","-","-","-","+">>,
             <<"|"," ","|"," ",":"," ","|">>,
             <<"|"," ",":"," ",":"," ","|">>,
             <<"|"," ",":"," ","|"," ","|">>,
             <<"+","-","-","-","-","-","+">> >>

\* two columns separated by a wall over the whole height: two components
MapSplit == << <<"+","-","-","-","+">>,
               <<"|"," ","|"," ","|">>,
               <<"|"," ","|"," ","|">>,
               <<"+","-","-","-","+">> >>

GraphMaps == {Map1x1, Map1x3, Map3x1, Map2x2, Map2x3, Map3x3, MapSplit}

-----------------------------------------------------------------------------
(* Python list helpers *)

\* lst[i] for a Python index i (negative indices count from the end)
PyIndex(lst, i) == IF i >= 0 THEN lst[i + 1] ELSE lst[Len(lst) + i + 1]

Max(a, b) == IF a >= b THEN a ELSE b
Min(a, b) == IF a <= b THEN a ELSE b

RECURSIVE Contains(_, _)
Contains(lst, x) ==
    IF lst = <<>> THEN FALSE
    ELSE IF Head(lst) = x THEN TRUE ELSE Contains(Tail(lst), x)

-----------------------------------------------------------------------------
(* EnvGraph *)

Inf == 1000000
NoNode == -1

node_to_cors(cols, node) == <<node \div cols, node % cols>>

cors_to_node(cols, row, col) == row * cols + col

\* Graph.add_edge(u, v): both nodes are created when missing, each is appended
\* to the other's adjacency unless the edge is already there.
AddHalf(adj, u, v) ==
    IF u \in DOMAIN adj
    THEN IF Contains(adj[u], v) THEN adj ELSE [adj EXCEPT ![u] = Append(@, v)]
    ELSE adj @@ (u :> <<v>>)

\* mutation: a directed graph, the edge is stored at its first node only
add_edge_OneWay(adj, u, v) ==
    LET a1 == AddHalf(adj, u, v)
    IN IF v \in DOMAIN a1 THEN a1 ELSE a1 @@ (v :> <<>>)

add_edge(adj, u, v) ==
    LET a1 == AddHalf(adj, u, v)
        a2 == IF v \in DOMAIN a1 THEN a1 ELSE a1 @@ (v :> <<>>)
    IN AddHalf(a2, v, u)

\* the loop of EnvGraph.__init__ over the nodes i, i+1, ..., n-1
RECURSIVE BuildFrom(_, _, _, _, _)
BuildFrom(d, cols, n, i, adj) ==
    IF i >= n THEN adj
    ELSE LET row == i \div cols
             col == i % cols
             a1 == IF d[row + 3][col * 2 + 2] # "-"
                   THEN add_edge(adj, i, cors_to_node(cols, row + 1, col))
                   ELSE adj
             a2 == IF d[row + 2][col * 2 + 3] = ":"
                   THEN add_edge(a1, i, cors_to_node(cols, row, col + 1))
                   ELSE a1
         IN BuildFrom(d, cols, n, i + 1, a2)

EnvGraph(d) ==
    LET rows == Len(d) - 2
        cols == Len(d[1]) \div 2
    IN [rows |-> rows, cols |-> cols,
        adj |-> BuildFrom(d, cols, rows * cols, 0, [i \in 0 .. rows * cols - 1 |-> <<>>])]

Cells(g) == {<<r, c>> : r \in 0 .. g.rows - 1, c \in 0 .. g.cols - 1}

(* nx.shortest_path on an unweighted graph: the bidirectional breadth-first *)
(* search, which expands the smaller fringe (the forward one on a tie),     *)
(* scans neighbours in adjacency order and stops at the first node that     *)
(* both searches have seen.                                                 *)

RECURSIVE LevelPairs(_, _)
LevelPairs(adj, level) ==
    IF level = <<>> THEN <<>>
    ELSE [k \in 1 .. Len(adj[Head(level)]) |-> <<Head(level), adj[Head(level)][k]>>]
         \o LevelPairs(adj, Tail(level))

\* one level of one search: mine is this side's predecessor map, other the
\* opposite side's
RECURSIVE ScanLevel(_, _, _, _, _)
ScanLevel(pairs, i, mine, other, fringe) ==
    IF i > Len(pairs)
    THEN [found |-> FALSE, w |-> NoNode, mine |-> mine, fringe |-> fringe]
    ELSE LET v == pairs[i][1]
             w == pairs[i][2]
             new == w \notin DOMAIN mine
             mine2 == IF new THEN mine @@ (w :> v) ELSE mine
             fringe2 == IF new THEN Append(fringe, w) ELSE fringe
         IN IF w \in DOMAIN other
            THEN [found |-> TRUE, w |-> w, mine |-> mine2, fringe |-> fringe2]
            ELSE ScanLevel(pairs, i + 1, mine2, other, fringe2)

RECURSIVE BidirSearch(_, _, _, _, _)

\* after a level of the forward search, r being what ScanLevel returned
AfterForward(adj, r, succ, reverse_fringe) ==
    IF r.found
    THEN [found |-> TRUE, w |-> r.w, pred |-> r.mine, succ |-> succ]
    ELSE BidirSearch(adj, r.mine, succ, r.fringe, reverse_fringe)

\* after a level of the reverse search
AfterReverse(adj, r, pred, forward_fringe) ==
    IF r.found
    THEN [found |-> TRUE, w |-> r.w, pred |-> pred, succ |-> r.mine]
    ELSE BidirSearch(adj, pred, r.mine, forward_fringe, r.fringe)

BidirSearch(adj, pred, succ, forward_fringe, reverse_fringe) ==
    IF forward_fringe = <<>> \/ reverse_fringe = <<>>
    THEN [found |-> FALSE, w |-> NoNode, pred |-> pred, succ |-> succ]
    ELSE IF Len(forward_fringe) <= Len(reverse_fringe)
    THEN AfterForward(adj, ScanLevel(LevelPairs(adj, forward_fringe), 1, pred, succ, <<>>),
                      succ, reverse_fringe)
    ELSE AfterReverse(adj, ScanLevel(LevelPairs(adj, reverse_fringe), 1, succ, pred, <<>>),
                      pred, forward_fringe)

\* follow a predecessor map from w to its root: <<w, m[w], m[m[w]], ...>>
RECURSIVE Chain(_, _)
Chain(m, w) == IF w = NoNode THEN <<>> ELSE <<w>> \o Chain(m, m[w])

Reverse(s) == [k \in 1 .. Len(s) |-> s[Len(s) + 1 - k]]

\* the path through the meeting node r.w: back to the source, on to the target
JoinPath(r) ==
    IF r.found
    THEN Reverse(Chain(r.pred, r.w)) \o Chain(r.succ, r.succ[r.w])
    ELSE <<>>

\* the node list of the shortest path, <<>> when there is none (NetworkXNoPath)
shortest_path(adj, source, target) ==
    JoinPath(BidirSearch(adj, (source :> NoNode), (target :> NoNode),
                         <<source>>, <<target>>))

\* the action of one hop of the path, from the difference of the node indices
DeltaAction(cols, delta) ==
    IF delta = -1 THEN 3
    ELSE IF delta = 1 THEN 2
    ELSE IF delta = -cols THEN 1
    ELSE 0

\* lines 53-65 of get_path: the cells after the origin and the hops' actions
PathToLists(cols, path) ==
    IF path = <<>>
    THEN [ok |-> FALSE, cells |-> <<>>, actions |-> <<>>]
    ELSE [ok |-> TRUE,
          cells |-> [k \in 1 .. Len(path) - 1 |-> node_to_cors(cols, path[k + 1])],
          actions |-> [k \in 1 .. Len(path) - 1 |-> DeltaAction(cols, path[k + 1] - path[k])]]

\* mutation: no early return for equal nodes, and the origin stays in the cell list
get_path_KeepsOrigin(g, origin, target) ==
    LET r == PathToLists(g.cols, shortest_path(g.adj, cors_to_node(g.cols, origin[1], origin[2]),
                                               cors_to_node(g.cols, target[1], target[2])))
    IN [r EXCEPT !.cells = <<origin>> \o @]

\* EnvGraph.get_path: [ok, cells, actions]; ok is FALSE when shortest_path raises
get_path(g, origin, target) ==
    IF cors_to_node(g.cols, origin[1], origin[2]) = cors_to_node(g.cols, target[1], target[2])
    THEN [ok |-> TRUE, cells |-> <<>>, actions |-> <<>>]
    ELSE PathToLists(g.cols, shortest_path(g.adj, cors_to_node(g.cols, origin[1], origin[2]),
                                           cors_to_node(g.cols, target[1], target[2])))

\* what a call gives that does not return: nx.shortest_path found no path
NetworkXNoPath == "NetworkXNoPath"

\* len(...[1]) of what get_path returned, when it returned
CostOf(r) == IF r.ok THEN Len(r.actions) ELSE NetworkXNoPath

\* EnvGraph.path_cost: the number of actions of get_path, which raises when there
\* is no path
path_cost(g, origin, dest) == CostOf(get_path(g, origin, dest))

-----------------------------------------------------------------------------
(* What an action does to a cell: 0 south, 1 north, 2 east, 3 west *)

Move(cell, a) ==
    IF a = 0 THEN <<cell[1] + 1, cell[2]>>
    ELSE IF a = 1 THEN <<cell[1] - 1, cell[2]>>
    ELSE IF a = 2 THEN <<cell[1], cell[2] + 1>>
    ELSE <<cell[1], cell[2] - 1>>

\* the cells visited when the actions are applied in order from cell
RECURSIVE Walk(_, _)
Walk(cell, actions) ==
    IF actions = <<>> THEN <<>>
    ELSE <<Move(cell, Head(actions))>> \o Walk(Move(cell, Head(actions)), Tail(actions))

\* distance in the graph, computed without shortest_path: the least k such
\* that target lies within k edges of source, Inf when there is none
RECURSIVE Grow(_, _, _, _, _)
Grow(adj, S, target, k, n) ==
    IF target \in S THEN k
    ELSE IF k >= n THEN Inf
    ELSE Grow(adj, S \cup UNION {{adj[u][j] : j \in 1 .. Len(adj[u])} : u \in S},
              target, k + 1, n)

Dist(g, a, b) ==
    Grow(g.adj, {cors_to_node(g.cols, a[1], a[2])}, cors_to_node(g.cols, b[1], b[2]),
         0, g.rows * g.cols)

-----------------------------------------------------------------------------
(* Specification of the graph queries: a map, an origin and a destination  *)

NoState == [taxis_locations |-> <<>>, fuels |-> <<>>, passengers_start_location |-> <<>>,
            passengers_destinations |-> <<>>, passengers_status |-> <<>>]

GraphInit ==
    /\ desc \in GraphMaps
    /\ graph = EnvGraph(desc)
    /\ state = NoState
    /\ taxis = <<>>
    /\ inp \in [origin : Cells(graph), dest : Cells(graph)]
    /\ ret = [ok |-> TRUE, cells |-> <<>>, actions |-> <<>>]
    /\ nsteps = 0
    /\ pc = "start"

GetPath ==
    /\ pc = "start"
    /\ ret' = get_path(graph, inp.origin, inp.dest)
    /\ pc' = "done"
    /\ UNCHANGED <<desc, graph, state, taxis, inp, nsteps>>

GraphNext == GetPath

SpecGraph == GraphInit /\ [][GraphNext]_vars

\* C1: for connected origin # dest, get_path returns as many cells as actions,
\* the number of actions is path_cost(origin, dest), and applying the actions
\* in order from origin visits exactly the returned cells and ends at dest.
C1_PathReplay ==
    (pc = "done" /\ inp.origin # inp.dest /\ ret.ok) =>
        /\ Len(ret.cells) = Len(ret.actions)
        /\ Len(ret.actions) = path_cost(graph, inp.origin, inp.dest)
        /\ Len(ret.actions) = Dist(graph, inp.origin, inp.dest)
        /\ Walk(inp.origin, ret.actions) = ret.cells
        /\ ret.cells[Len(ret.cells)] = inp.dest

-----------------------------------------------------------------------------
(* Taxi: accessors and path queries.  A taxi with taxi_index i is the      *)
(* (i+1)-th entry of the state lists; None stands for an omitted argument. *)

None == -1

get_location(st, i) == st.taxis_locations[i + 1]

get_fuel(st, i) == st.fuels[i + 1]

\* Taxi.compute_shortest_path(dest) from the taxi's current location
compute_shortest_path(g, st, i, dest) == get_path(g, get_location(st, i), dest)

\* Taxi.path_cost(dest, origin): an origin that is None (or empty) means the
\* taxi's current location
taxi_path_cost(g, st, i, dest, origin) ==
    path_cost(g, IF origin = <<>> THEN get_location(st, i) ELSE origin, dest)

\* action_index_dictionary of the environment: the four moves are 0 .. 3
ActPickup == 4
ActDropoff(passenger) == 5 + passenger

\* Taxi.send_taxi_to_point
send_taxi_to_point(g, st, tx, i, point) ==
    [tx EXCEPT !.actions_queue = @ \o compute_shortest_path(g, st, i, point).actions]

\* Taxi.send_taxi_to_pickup raises IndexError when it reads assigned_passengers[0]
\* of an empty list: the index given is 0 and nothing is assigned
send_taxi_to_pickup_raises(tx, passenger_index) ==
    /\ ~ (tx.assigned_passengers = <<>> /\ passenger_index = None)
    /\ (passenger_index = None \/ passenger_index = 0)
    /\ tx.assigned_passengers = <<>>

\* Taxi.send_taxi_to_pickup(passenger_index), passenger_index None when omitted
send_taxi_to_pickup(g, st, tx, i, passenger_index) ==
    IF tx.assigned_passengers = <<>> /\ passenger_index = None THEN tx
    ELSE LET pickup_passenger == IF passenger_index # None /\ passenger_index # 0
                                 THEN passenger_index
                                 ELSE tx.assigned_passengers[1]
             passenger_location == st.passengers_start_location[pickup_passenger + 1]
         IN [send_taxi_to_point(g, st, tx, i, passenger_location)
                EXCEPT !.actions_queue = @ \o <<ActPickup>>]

\* mutation: without a passenger the taxi is still sent to the point given
send_taxi_to_dropoff_MovesAnyway(g, st, tx, i, point) ==
    IF tx.assigned_passengers = <<>>
    THEN (IF point # <<>> THEN send_taxi_to_point(g, st, tx, i, point) ELSE tx)
    ELSE LET destination == IF point # <<>> THEN point
                            ELSE st.passengers_destinations[tx.assigned_passengers[1] + 1]
         IN [send_taxi_to_point(g, st, tx, i, destination)
                EXCEPT !.actions_queue = @ \o <<ActDropoff(tx.assigned_passengers[1])>>,
                       !.assigned_passengers = Tail(@)]

\* mutation: the dropoff is tagged with the last assigned passenger
send_taxi_to_dropoff_TagsLast(g, st, tx, i, point) ==
    IF tx.assigned_passengers = <<>> THEN tx
    ELSE LET destination == IF point # <<>> THEN point
                            ELSE st.passengers_destinations[tx.assigned_passengers[1] + 1]
         IN [send_taxi_to_point(g, st, tx, i, destination)
                EXCEPT !.actions_queue =
                           @ \o <<ActDropoff(tx.assigned_passengers[Len(tx.assigned_passengers)])>>,
                       !.assigned_passengers = Tail(@)]

\* Taxi.send_taxi_to_dropoff(point), point <<>> when omitted (or the empty list)
send_taxi_to_dropoff(g, st, tx, i, point) ==
    IF tx.assigned_passengers = <<>> THEN tx
    ELSE LET destination == IF point # <<>> THEN point
                            ELSE st.passengers_destinations[tx.assigned_passengers[1] + 1]
         IN [send_taxi_to_point(g, st, tx, i, destination)
                EXCEPT !.actions_queue = @ \o <<ActDropoff(tx.assigned_passengers[1])>>,
                       !.assigned_passengers = Tail(@)]

-----------------------------------------------------------------------------
(* The environment's step function.  Its code is not part of the sources;  *)
(* it is modelled from the interface the specification describes: a move   *)
(* costs one unit of fuel and takes the taxi one cell unless a wall is in   *)
(* the way, a taxi without fuel does nothing, pickup takes a waiting        *)
(* passenger standing on the taxi's cell, dropoff puts the passenger down   *)
(* on the taxi's cell and delivers it when that is its destination.         *)
(* Passenger status: 1 delivered, 2 waiting, 3 + i riding in taxi i.        *)

Delivered == 1
Waiting == 2
Riding(i) == 3 + i

EnvMove(d, cell, a) ==
    LET row == cell[1]
        col == cell[2]
    IN IF a = 0 THEN <<Min(row + 1, Len(d) - 3), col>>
       ELSE IF a = 1 THEN <<Max(row - 1, 0), col>>
       ELSE IF a = 2 THEN (IF d[row + 2][2 * col + 3] = ":" THEN <<row, col + 1>> ELSE cell)
       ELSE (IF d[row + 2][2 * col + 1] = ":" THEN <<row, col - 1>> ELSE cell)

EnvAct(d, st, i, a) ==
    LET loc == st.taxis_locations[i + 1]
        here == {p \in 1 .. Len(st.passengers_status) :
                    st.passengers_status[p] = Waiting /\ st.passengers_start_location[p] = loc}
    IN IF st.fuels[i + 1] = 0 THEN st
       ELSE IF a \in 0 .. 3
       THEN [st EXCEPT !.taxis_locations[i + 1] = EnvMove(d, loc, a), !.fuels[i + 1] = @ - 1]
       ELSE IF a = ActPickup
       THEN IF here = {} THEN st
            ELSE [st EXCEPT !.passengers_status[CHOOSE p \in here : \A q \in here : p <= q]
                                = Riding(i)]
       ELSE LET p == a - ActDropoff(0) + 1
            IN IF p \in 1 .. Len(st.passengers_status) /\ st.passengers_status[p] = Riding(i)
               THEN [st EXCEPT !.passengers_start_location[p] = loc,
                               !.passengers_status[p] =
                                   IF loc = st.passengers_destinations[p]
                                   THEN Delivered ELSE Waiting]
               ELSE st

\* taxi_env.step(taxis_step): the taxis named in the map act in index order
RECURSIVE env_step(_, _, _, _)
env_step(d, st, taxis_step, i) ==
    IF i >= Len(st.taxis_locations) THEN st
    ELSE env_step(d, IF i \in DOMAIN taxis_step THEN EnvAct(d, st, i, taxis_step[i]) ELSE st,
                  taxis_step, i + 1)

-----------------------------------------------------------------------------
(* Controller: the transfer point strategies and the allocation *)

get_passenger_cors(st, p) == st.passengers_start_location[p + 1]

get_destination_cors(st, p) == st.passengers_destinations[p + 1]

\* the first element of a non-empty list of pairs whose first component is
\* minimal: min(lst, key=lambda x: x[0])
RECURSIVE MinByFirst(_, _, _)
MinByFirst(lst, i, best) ==
    IF i > Len(lst) THEN best
    ELSE MinByFirst(lst, i + 1, IF lst[i][1] < best[1] THEN lst[i] ELSE best)

\* one entry of off_road_distances: how many steps toward point the sender
\* cannot make, and the cell where it stops
\* pa is the sender's shortest path to point, from_taxi_remaining_fuel its fuel - 1
OffRoad(location, pa, from_taxi_remaining_fuel, point) ==
    LET path_cords == <<location>> \o pa.cells
        remaining_path == Max(0, Len(pa.actions) - from_taxi_remaining_fuel)
    IN IF remaining_path > 0
       THEN <<remaining_path,
              PyIndex(path_cords, Min(from_taxi_remaining_fuel, Len(pa.actions)))>>
       ELSE <<0, point>>

OffRoadEntry(g, st, from_taxi_index, point) ==
    OffRoad(get_location(st, from_taxi_index),
            compute_shortest_path(g, st, from_taxi_index, point),
            st.fuels[from_taxi_index + 1] - 1, point)

\* the candidates of H1: the receiver's location, then its path to the destination
H1Candidates(g, st, to_taxi_index, passenger_index) ==
    <<get_location(st, to_taxi_index)>> \o
    compute_shortest_path(g, st, to_taxi_index, get_destination_cors(st, passenger_index)).cells

off_road_distances(g, st, from_taxi_index, candidates) ==
    [k \in 1 .. Len(candidates) |-> OffRoadEntry(g, st, from_taxi_index, candidates[k])]

\* min(off_road_distances, key=lambda x: x[0])
MinOffRoad(ds) == MinByFirst(ds, 2, ds[1])

find_transfer_point_h1(g, st, from_taxi_index, to_taxi_index, passenger_index) ==
    MinOffRoad(off_road_distances(g, st, from_taxi_index,
                                  H1Candidates(g, st, to_taxi_index, passenger_index)))[2]

\* mutation: the index is the whole fuel, nothing is kept for the dropoff
ClampedCell_WholeFuel(shortest_path_cells, fuel) ==
    PyIndex(shortest_path_cells, Max(0, Min(fuel, Len(shortest_path_cells) - 1)))

\* the cell of the list at the clamped index fuel - 1
ClampedCell(shortest_path_cells, fuel) ==
    PyIndex(shortest_path_cells, Max(0, Min(fuel - 1, Len(shortest_path_cells) - 1)))

find_transfer_point_h2(g, st, from_taxi_index, passenger_index) ==
    ClampedCell(<<get_location(st, from_taxi_index)>> \o
                compute_shortest_path(g, st, from_taxi_index,
                                      get_destination_cors(st, passenger_index)).cells,
                get_fuel(st, from_taxi_index))

\* whether find_optimal_transfer_point looks at the cell at all
SenderReaches(g, st, from_taxi_index, transfer_point) ==
    ~ (taxi_path_cost(g, st, from_taxi_index, transfer_point, <<>>)
         > get_fuel(st, from_taxi_index) - 1)

\* dist_from_dest of a transfer point, as find_optimal_transfer_point scores it
\* lines 157-162: path_to_point_cost is the receiver's cost to the transfer point,
\* to_dest the cost from the transfer point to the destination
ScoreOf(path_to_point_cost, to_dest, to_taxi_fuel) ==
    IF path_to_point_cost > to_taxi_fuel - 1
    THEN to_dest
    ELSE Max(0, (path_to_point_cost + to_dest) - (to_taxi_fuel - 1))

dist_from_dest(g, st, from_taxi_index, to_taxi_index, passenger_index, transfer_point) ==
    ScoreOf(taxi_path_cost(g, st, to_taxi_index, transfer_point, <<>>),
            taxi_path_cost(g, st, from_taxi_index, get_destination_cors(st, passenger_index),
                           transfer_point),
            get_fuel(st, to_taxi_index))

\* mutation: a cell that ties with the best one so far replaces it
Better_LastOnTies(best, transfer_point, reached, d) ==
    IF reached /\ d <= best.min_dist_from_dest
    THEN [best_transfer_point |-> transfer_point, min_dist_from_dest |-> d]
    ELSE best

\* the two nested loops over the grid, row by row: n is row * cols + col
\* lines 150-167 for one cell: reached says whether the sender gets there,
\* d is the cell's dist_from_dest
Better(best, transfer_point, reached, d) ==
    IF reached /\ d < best.min_dist_from_dest
    THEN [best_transfer_point |-> transfer_point, min_dist_from_dest |-> d]
    ELSE best

RECURSIVE OptimalScan(_, _, _, _, _, _, _)
OptimalScan(g, st, from_taxi_index, to_taxi_index, passenger_index, n, best) ==
    IF n >= g.rows * g.cols THEN best
    ELSE OptimalScan(g, st, from_taxi_index, to_taxi_index, passenger_index, n + 1,
            Better(best, <<n \div g.cols, n % g.cols>>,
                   SenderReaches(g, st, from_taxi_index, <<n \div g.cols, n % g.cols>>),
                   dist_from_dest(g, st, from_taxi_index, to_taxi_index, passenger_index,
                                  <<n \div g.cols, n % g.cols>>)))

\* returns best_transfer_point, <<>> standing for the empty list, together
\* with the value of min_dist_from_dest at the return
find_optimal_transfer_point(g, st, from_taxi_index, to_taxi_index, passenger_index) ==
    OptimalScan(g, st, from_taxi_index, to_taxi_index, passenger_index, 0,
                [best_transfer_point |-> <<>>, min_dist_from_dest |-> Inf])

\* mutation: the fuel of the taxi is not looked at
IsCloser_AnyFuel(taxi_distance, closest_taxi_distance, taxi_fuel) ==
    taxi_distance < closest_taxi_distance

\* line 180: whether the taxi replaces the closest one found so far
IsCloser(taxi_distance, closest_taxi_distance, taxi_fuel) ==
    taxi_distance < closest_taxi_distance /\ taxi_distance < taxi_fuel

\* lines 180-182 for taxi k: best is <<closest_taxi_distance, closest_taxi_index>>
Closer(best, taxi_distance, taxi_fuel, k) ==
    IF IsCloser(taxi_distance, best[1], taxi_fuel) THEN <<taxi_distance, k>> ELSE best

\* the loop of find_closest_taxi over the taxis k, k+1, ...
RECURSIVE ClosestScan(_, _, _, _, _)
ClosestScan(g, st, dest, k, best) ==
    IF k >= Len(st.taxis_locations) THEN best[2]
    ELSE ClosestScan(g, st, dest, k + 1,
                     Closer(best, path_cost(g, get_location(st, k), dest), get_fuel(st, k), k))

\* mutation: the first taxi is returned when no taxi qualifies
find_closest_taxi_DefaultsToFirst(g, st, dest) == ClosestScan(g, st, dest, 0, <<Inf, 0>>)

\* Controller.find_closest_taxi
find_closest_taxi(g, st, dest) == ClosestScan(g, st, dest, 0, <<Inf, -1>>)

-----------------------------------------------------------------------------
(* Specification of the transfer point strategies: two taxis, one passenger *)
(* held by the sender, any fuels and positions; the three strategies are    *)
(* called one after the other on the same state.                            *)

TransferMaps == {Map1x3, Map2x2, Map2x3}

NewTaxi == [actions_queue |-> <<>>, assigned_passengers |-> <<>>,
            communication_channel |-> <<>>]

TransferInit ==
    /\ desc \in TransferMaps
    /\ graph = EnvGraph(desc)
    /\ \E l0 \in Cells(graph), l1 \in Cells(graph), d \in Cells(graph),
          f0 \in 0 .. MaxFuel, f1 \in 0 .. MaxFuel :
          state = [taxis_locations |-> <<l0, l1>>, fuels |-> <<f0, f1>>,
                   passengers_start_location |-> <<l0>>, passengers_destinations |-> <<d>>,
                   passengers_status |-> <<Riding(0)>>]
    /\ taxis = <<[NewTaxi EXCEPT !.assigned_passengers = <<0>>], NewTaxi>>
    /\ inp = [from_taxi_index |-> 0, to_taxi_index |-> 1, passenger_index |-> 0]
    /\ ret = [h1 |-> <<>>, h2 |-> <<>>,
              optimal |-> [best_transfer_point |-> <<>>, min_dist_from_dest |-> Inf]]
    /\ nsteps = 0
    /\ pc = "start"

CallH1 ==
    /\ pc = "start"
    /\ ret' = [ret EXCEPT !.h1 = find_transfer_point_h1(graph, state, inp.from_taxi_index,
                                     inp.to_taxi_index, inp.passenger_index)]
    /\ pc' = "h1"
    /\ UNCHANGED <<desc, graph, state, taxis, inp, nsteps>>

CallH2 ==
    /\ pc = "h1"
    /\ ret' = [ret EXCEPT !.h2 = find_transfer_point_h2(graph, state, inp.from_taxi_index,
                                     inp.passenger_index)]
    /\ pc' = "h2"
    /\ UNCHANGED <<desc, graph, state, taxis, inp, nsteps>>

CallOptimal ==
    /\ pc = "h2"
    /\ ret' = [ret EXCEPT !.optimal = find_optimal_transfer_point(graph, state,
                                     inp.from_taxi_index, inp.to_taxi_index, inp.passenger_index)]
    /\ pc' = "optimal"
    /\ UNCHANGED <<desc, graph, state, taxis, inp, nsteps>>

TransferNext == CallH1 \/ CallH2 \/ CallOptimal

SpecTransfer == TransferInit /\ [][TransferNext]_vars

\* C2: the transfer points of H1 and of H2 are cells the sender can reach from
\* its location in at most max(0, fuel - 1) moves.
C2_TransferPointReachable ==
    LET from == inp.from_taxi_index
        budget == Max(0, get_fuel(state, from) - 1)
    IN /\ pc \in {"h1", "h2", "optimal"} =>
              Dist(graph, get_location(state, from), ret.h1) <= budget
       /\ pc \in {"h2", "optimal"} =>
              Dist(graph, get_location(state, from), ret.h2) <= budget

\* C3: the score of the cell find_optimal_transfer_point chose is at most the
\* same score taken at the transfer point of H1 and at that of H2.
C3_OptimalBound ==
    pc = "optimal" =>
        /\ ret.optimal.min_dist_from_dest
             <= dist_from_dest(graph, state, inp.from_taxi_index, inp.to_taxi_index,
                               inp.passenger_index, ret.h1)
        /\ ret.optimal.min_dist_from_dest
             <= dist_from_dest(graph, state, inp.from_taxi_index, inp.to_taxi_index,
                               inp.passenger_index, ret.h2)

-----------------------------------------------------------------------------
(* Collaboration_Experiment.no_collaboration_case *)

\* mutation: a taxi whose fuel equals the cost counts as capable
IsCapable_Inclusive(total_path_cost, taxi_fuel) == total_path_cost <= taxi_fuel

\* line 27: whether the taxi can deliver alone
IsCapable(total_path_cost, taxi_fuel) == total_path_cost < taxi_fuel

\* mutation: the shortfall is taken against the whole fuel
NoCollabTaxi_WholeFuel(acc, k, total_path_cost, taxi_fuel) ==
    [capable_taxis |-> IF IsCapable(total_path_cost, taxi_fuel)
                       THEN Append(acc.capable_taxis, k) ELSE acc.capable_taxis,
     min_dist_from_dest |-> Min(acc.min_dist_from_dest,
                                Max(0, total_path_cost - taxi_fuel))]

\* lines 23-28 for taxi k: acc is [capable_taxis, min_dist_from_dest]
NoCollabTaxi(acc, k, total_path_cost, taxi_fuel) ==
    [capable_taxis |-> IF IsCapable(total_path_cost, taxi_fuel)
                       THEN Append(acc.capable_taxis, k) ELSE acc.capable_taxis,
     min_dist_from_dest |-> Min(acc.min_dist_from_dest,
                                Max(0, total_path_cost - (taxi_fuel - 1)))]

\* the loop over the taxis k, k+1, ...
RECURSIVE NoCollabScan(_, _, _, _, _, _)
NoCollabScan(g, st, passenger_location, path_to_destination_cost, k, acc) ==
    IF k >= Len(st.taxis_locations) THEN acc
    ELSE NoCollabScan(g, st, passenger_location, path_to_destination_cost, k + 1,
            NoCollabTaxi(acc, k,
                taxi_path_cost(g, st, k, passenger_location, <<>>) + path_to_destination_cost,
                get_fuel(st, k)))

NoCollabFrom(g, st, passenger_location, path_to_destination_cost) ==
    NoCollabScan(g, st, passenger_location, path_to_destination_cost, 0,
                 [capable_taxis |-> <<>>, min_dist_from_dest |-> path_to_destination_cost])

no_collaboration_case(g, st, passenger_index) ==
    NoCollabFrom(g, st, st.passengers_start_location[passenger_index + 1],
                 path_cost(g, st.passengers_start_location[passenger_index + 1],
                           st.passengers_destinations[passenger_index + 1]))

-----------------------------------------------------------------------------
(* Specification of the allocation queries: one to three taxis and one     *)
(* waiting passenger, any fuels and positions.                              *)

AllocShapes == {<<Map1x3, 1>>, <<Map1x3, 2>>, <<Map1x3, 3>>,
                <<Map2x2, 1>>, <<Map2x2, 2>>, <<Map2x3, 2>>}

AllocInit ==
    /\ \E sh \in AllocShapes :
          /\ desc = sh[1]
          /\ graph = EnvGraph(desc)
          /\ \E locs \in [1 .. sh[2] -> Cells(graph)], fs \in [1 .. sh[2] -> 0 .. MaxFuel],
                p \in Cells(graph), d \in Cells(graph) :
                state = [taxis_locations |-> locs, fuels |-> fs,
                         passengers_start_location |-> <<p>>, passengers_destinations |-> <<d>>,
                         passengers_status |-> <<Waiting>>]
    /\ taxis = [k \in 1 .. Len(state.fuels) |-> NewTaxi]
    /\ inp = [passenger_index |-> 0]
    /\ ret = [closest_taxi |-> None,
              no_collaboration |-> [capable_taxis |-> <<>>, min_dist_from_dest |-> Inf]]
    /\ nsteps = 0
    /\ pc = "start"

CallFindClosestTaxi ==
    /\ pc = "start"
    /\ ret' = [ret EXCEPT !.closest_taxi =
                  find_closest_taxi(graph, state, get_passenger_cors(state, inp.passenger_index))]
    /\ pc' = "closest"
    /\ UNCHANGED <<desc, graph, state, taxis, inp, nsteps>>

CallNoCollaboration ==
    /\ pc = "closest"
    /\ ret' = [ret EXCEPT !.no_collaboration =
                  no_collaboration_case(graph, state, inp.passenger_index)]
    /\ pc' = "no_collaboration"
    /\ UNCHANGED <<desc, graph, state, taxis, inp, nsteps>>

AllocNext == CallFindClosestTaxi \/ CallNoCollaboration

SpecAlloc == AllocInit /\ [][AllocNext]_vars

\* the taxi indices of the state
TaxiIds == 0 .. Len(state.fuels) - 1

\* in state st: distance of taxi i to the passenger, of the passenger to its
\* destination, the taxis with cost to the passenger below their fuel, the
\* taxis that can deliver alone
ToPassengerIn(st, i) == Dist(graph, get_location(st, i), get_passenger_cors(st, 0))
DirectIn(st) == Dist(graph, get_passenger_cors(st, 0), get_destination_cors(st, 0))
FeasibleIn(st) == {i \in TaxiIds : ToPassengerIn(st, i) < get_fuel(st, i)}
CapableIn(st) == {i \in TaxiIds : ToPassengerIn(st, i) + DirectIn(st) < get_fuel(st, i)}

ToPassenger(i) == ToPassengerIn(state, i)
Direct == DirectIn(state)
TotalCost(i) == ToPassenger(i) + Direct
Feasible == FeasibleIn(state)

\* C4: find_closest_taxi returns the lowest-indexed taxi of minimal cost among
\* those with cost < fuel, and -1 exactly when there is no such taxi.
C4_ClosestTaxi ==
    pc \in {"closest", "no_collaboration"} =>
        /\ (ret.closest_taxi = -1) <=> (Feasible = {})
        /\ Feasible # {} =>
              /\ ret.closest_taxi \in Feasible
              /\ \A j \in Feasible : ToPassenger(ret.closest_taxi) <= ToPassenger(j)
              /\ \A j \in Feasible : ToPassenger(j) = ToPassenger(ret.closest_taxi)
                                        => ret.closest_taxi <= j

\* a second taxi ties with the returned one, and an infeasible taxi is closer
C4_Witness ==
    /\ pc = "closest"
    /\ ret.closest_taxi # -1
    /\ \E j \in Feasible : j > ret.closest_taxi
                             /\ ToPassenger(j) = ToPassenger(ret.closest_taxi)
    /\ \E j \in TaxiIds \ Feasible : ToPassenger(j) < ToPassenger(ret.closest_taxi)

Capable == CapableIn(state)

Shortfall(i) == Max(0, TotalCost(i) - (get_fuel(state, i) - 1))

SetToAscending(S) ==
    [k \in 1 .. Cardinality(S) |-> CHOOSE i \in S : Cardinality({j \in S : j < i}) = k - 1]

\* C7: no_collaboration_case returns exactly the taxis with total cost < fuel
\* and min(direct cost, least shortfall over the taxis); the shortfall lies in
\* 0 .. direct cost and is 0 when some taxi is capable.
C7_NoCollaboration ==
    pc = "no_collaboration" =>
        LET r == ret.no_collaboration
        IN /\ r.capable_taxis = SetToAscending(Capable)
           /\ \/ r.min_dist_from_dest = Direct
              \/ \E i \in TaxiIds : r.min_dist_from_dest = Shortfall(i)
           /\ r.min_dist_from_dest <= Direct
           /\ \A i \in TaxiIds : r.min_dist_from_dest <= Shortfall(i)
           /\ r.min_dist_from_dest >= 0
           /\ Capable # {} => r.min_dist_from_dest = 0

\* some taxi is capable, another is not, and the direct cost is positive
C7_Witness ==
    /\ pc = "no_collaboration"
    /\ Len(ret.no_collaboration.capable_taxis) >= 1
    /\ Capable # TaxiIds
    /\ Direct > 0
    /\ ret.no_collaboration.min_dist_from_dest = 0

\* C8 as stated: with no capable taxi the capable set is empty and the minimum
\* shortfall is strictly positive.
C8_PositiveShortfall ==
    (pc = "no_collaboration" /\ Capable = {}) =>
        /\ ret.no_collaboration.capable_taxis = <<>>
        /\ ret.no_collaboration.min_dist_from_dest > 0

\* C8 amended: with no capable taxi the capable set is empty, and the minimum
\* shortfall is strictly positive exactly when the passenger is not already at
\* its destination (it is 0 when the passenger is there).
C8_PositiveShortfallUnlessArrived ==
    (pc = "no_collaboration" /\ Capable = {}) =>
        /\ ret.no_collaboration.capable_taxis = <<>>
        /\ (ret.no_collaboration.min_dist_from_dest > 0)
              <=> (get_passenger_cors(state, 0) # get_destination_cors(state, 0))

\* no taxi is capable, the passenger is away from its destination, and the
\* shortfall is below the direct cost
C8_Witness ==
    /\ pc = "no_collaboration"
    /\ Capable = {}
    /\ ret.no_collaboration.capable_taxis = <<>>
    /\ ret.no_collaboration.min_dist_from_dest > 0
    /\ ret.no_collaboration.min_dist_from_dest < Direct

-----------------------------------------------------------------------------
(* Controller.execute_all_actions and Collaboration_Experiment's            *)
(* collaboration_case: the function is cut at its calls of                  *)
(* execute_all_actions, whose loop runs one iteration per ExecStep; the     *)
(* calls follow one another as in collaboration_experiment, the environment *)
(* being reset in between; nsteps counts the steps of the current call.     *)

\* mutation: only the first taxi's queue is looked at
any_actions_left_FirstOnly(txs) == txs[1].actions_queue # <<>>

\* mutation: the loop goes on only while every taxi still has actions
any_actions_left_All(txs) == \A k \in 1 .. Len(txs) : txs[k].actions_queue # <<>>

any_actions_left(txs) == \E k \in 1 .. Len(txs) : txs[k].actions_queue # <<>>

\* mutation: the map is filtered by the truth of the action, so south (0) is dropped
next_step_map_SkipsSouth(txs) ==
    [i \in {k - 1 : k \in {j \in 1 .. Len(txs) :
                              txs[j].actions_queue # <<>> /\ Head(txs[j].actions_queue) # 0}}
        |-> Head(txs[i + 1].actions_queue)]

\* Controller.get_next_step: the heads of the non-empty queues, by taxi index
next_step_map(txs) ==
    [i \in {k - 1 : k \in {j \in 1 .. Len(txs) : txs[j].actions_queue # <<>>}}
        |-> Head(txs[i + 1].actions_queue)]

pop_heads(txs) ==
    [k \in 1 .. Len(txs) |->
        IF txs[k].actions_queue # <<>>
        THEN [txs[k] EXCEPT !.actions_queue = Tail(@)] ELSE txs[k]]

CollabMaps == {Map1x3, Map2x2, Map3x1}

\* nothing is known yet of the call of collaboration_case
NoResult == [closest_taxi |-> -1, transfer_point |-> <<>>, result |-> <<>>]

CollabInit ==
    /\ desc \in CollabMaps
    /\ graph = EnvGraph(desc)
    /\ \E l0 \in Cells(graph), l1 \in Cells(graph), p \in Cells(graph), d \in Cells(graph),
          f0 \in 0 .. MaxFuel, f1 \in 0 .. MaxFuel :
          state = [taxis_locations |-> <<l0, l1>>, fuels |-> <<f0, f1>>,
                   passengers_start_location |-> <<p>>, passengers_destinations |-> <<d>>,
                   passengers_status |-> <<Waiting>>]
    /\ taxis = <<NewTaxi, NewTaxi>>
    /\ \E h \in 0 .. 2 : inp = [passenger_index |-> 0, h |-> h, start |-> state,
                                 before |-> taxis]
    /\ ret = NoResult
    /\ nsteps = 0
    /\ pc = "start"

\* taxis[index] with a Python index: -1 is the last taxi
PyPos(lst, index) == IF index >= 0 THEN index + 1 ELSE Len(lst) + index + 1

\* lines 44-55: allocation, early return, the pickup is queued
CollabAllocate ==
    /\ pc = "start"
    /\ \E closest_taxi \in {find_closest_taxi(graph, state,
                               get_passenger_cors(state, inp.passenger_index))} :
       \E k \in {PyPos(taxis, closest_taxi)} :
          IF closest_taxi = -1
          THEN /\ taxis' = [taxis EXCEPT ![k].assigned_passengers =
                                             Append(@, inp.passenger_index)]
               /\ ret' = [ret EXCEPT !.closest_taxi = closest_taxi,
                             !.result = <<0, path_cost(graph,
                                            get_passenger_cors(state, inp.passenger_index),
                                            get_destination_cors(state, inp.passenger_index))>>]
               /\ pc' = "done"
          ELSE /\ taxis' = [taxis EXCEPT ![k] =
                               send_taxi_to_pickup(graph, state,
                                   [@ EXCEPT !.assigned_passengers =
                                                 Append(@, inp.passenger_index)],
                                   closest_taxi, None)]
               /\ ret' = [ret EXCEPT !.closest_taxi = closest_taxi]
               /\ pc' = "pickup"
    /\ UNCHANGED <<desc, graph, state, inp, nsteps>>

\* one iteration of the loop of execute_all_actions
ExecStep ==
    /\ pc \in {"pickup", "handoff", "receive", "dropoff"}
    /\ any_actions_left(taxis)
    /\ state' = env_step(desc, state, next_step_map(taxis), 0)
    /\ taxis' = pop_heads(taxis)
    /\ nsteps' = nsteps + 1
    /\ UNCHANGED <<desc, graph, inp, ret, pc>>

\* lines 60-68: the transfer point by the strategy h
transfer_point_by(g, st, h, from, to, passenger_index) ==
    IF h = 1 THEN find_transfer_point_h1(g, st, from, to, 0)
    ELSE IF h = 2 THEN find_transfer_point_h2(g, st, from, 0)
    ELSE find_optimal_transfer_point(g, st, from, to, passenger_index).best_transfer_point

\* mutation: transfer_passenger queues the receiver's pickup without draining first
CollabTransfer_NoDrain ==
    /\ pc = "pickup"
    /\ ~ any_actions_left(taxis)
    /\ \E from \in {ret.closest_taxi}, to \in {1 - ret.closest_taxi} :
       \E transfer_point \in {transfer_point_by(graph, state, inp.h, from, to,
                                                inp.passenger_index)} :
          /\ ret' = [ret EXCEPT !.transfer_point = transfer_point]
          /\ IF transfer_point = <<>>
             THEN /\ taxis' = [taxis EXCEPT ![from + 1] =
                                  send_taxi_to_dropoff(graph, state, @, from, transfer_point)]
                  /\ pc' = "raised"
             ELSE /\ taxis' = [taxis EXCEPT
                                  ![from + 1] = send_taxi_to_dropoff(graph, state, @, from,
                                                                     transfer_point),
                                  ![to + 1] = send_taxi_to_pickup(graph, state,
                                      [send_taxi_to_point(graph, state, @, to, transfer_point)
                                          EXCEPT !.assigned_passengers = Append(@, 0)],
                                      to, None)]
                  /\ pc' = "handoff"
    /\ UNCHANGED <<desc, graph, state, inp, nsteps>>

\* lines 58-70 up to the first drain of transfer_passenger: the transfer point by
\* the chosen strategy, the sender queued to drop off there, the receiver to go there
CollabTransfer ==
    /\ pc = "pickup"
    /\ ~ any_actions_left(taxis)
    /\ \E from \in {ret.closest_taxi}, to \in {1 - ret.closest_taxi} :
       \E transfer_point \in {transfer_point_by(graph, state, inp.h, from, to,
                                                inp.passenger_index)} :
          /\ ret' = [ret EXCEPT !.transfer_point = transfer_point]
          /\ IF transfer_point = <<>>
             THEN \* get_path cannot unpack the empty point: TypeError
                  /\ taxis' = [taxis EXCEPT ![from + 1] =
                                  send_taxi_to_dropoff(graph, state, @, from, transfer_point)]
                  /\ pc' = "raised"
             ELSE /\ taxis' = [taxis EXCEPT
                                  ![from + 1] = send_taxi_to_dropoff(graph, state, @, from,
                                                                     transfer_point),
                                  ![to + 1] = send_taxi_to_point(graph, state, @, to,
                                                                 transfer_point)]
                  /\ pc' = "handoff"
    /\ UNCHANGED <<desc, graph, state, inp, nsteps>>

\* transfer_passenger after its first drain: the receiver gets the passenger
\* assigned and is queued to pick it up
TransferPickup ==
    /\ pc = "handoff"
    /\ ~ any_actions_left(taxis)
    /\ LET to == 1 - ret.closest_taxi
       IN taxis' = [taxis EXCEPT ![to + 1] =
                       send_taxi_to_pickup(graph, state,
                           [@ EXCEPT !.assigned_passengers = Append(@, 0)], to, None)]
    /\ pc' = "receive"
    /\ UNCHANGED <<desc, graph, state, inp, ret, nsteps>>

\* lines 72-74: the receiver is queued to drop the passenger at its destination
CollabDropoff ==
    /\ pc = "receive"
    /\ ~ any_actions_left(taxis)
    /\ LET to == 1 - ret.closest_taxi
       IN taxis' = [taxis EXCEPT ![to + 1] = send_taxi_to_dropoff(graph, state, @, to, <<>>)]
    /\ pc' = "dropoff"
    /\ UNCHANGED <<desc, graph, state, inp, ret, nsteps>>

\* lines 76-82: the outcome
CollabReturn ==
    /\ pc = "dropoff"
    /\ ~ any_actions_left(taxis)
    /\ ret' = [ret EXCEPT !.result =
                  IF state.passengers_status[1] = Delivered THEN <<1, 0>>
                  ELSE <<0, path_cost(graph, get_passenger_cors(state, inp.passenger_index),
                                      get_destination_cors(state, inp.passenger_index))>>]
    /\ pc' = "done"
    /\ UNCHANGED <<desc, graph, state, taxis, inp, nsteps>>

\* reset_env_state(state, env, controller, all_taxis) as collaboration_experiment
\* calls it between its calls of collaboration_case (h = 1, then 2, then 0): the
\* environment is put back to the copy taken before the call, the taxis keep their
\* lists, and the next call starts; inp.before and nsteps are those of the new call
ResetEnvState ==
    /\ pc = "done"
    /\ inp.h # 0
    /\ state' = inp.start
    /\ inp' = [inp EXCEPT !.h = IF @ = 1 THEN 2 ELSE 0, !.before = taxis]
    /\ ret' = NoResult
    /\ nsteps' = 0
    /\ pc' = "start"
    /\ UNCHANGED <<desc, graph, taxis>>

CollabNext ==
    \/ CollabAllocate
    \/ ExecStep
    \/ CollabTransfer
    \/ TransferPickup
    \/ CollabDropoff
    \/ CollabReturn
    \/ ResetEnvState

SpecCollab == CollabInit /\ [][CollabNext]_vars

AllQueuesEmpty == \A k \in 1 .. Len(taxis) : taxis[k].actions_queue = <<>>

\* C9: when no taxi has cost to the passenger below its fuel, collaboration_case
\* returns (0, cost(passenger -> destination)) without raising, queues no action
\* and never calls the environment's step.
C9_NoReachFails ==
    (pc # "start" /\ FeasibleIn(inp.start) = {}) =>
        /\ pc = "done"
        /\ ret.closest_taxi = -1
        /\ ret.result = <<0, DirectIn(inp.start)>>
        /\ AllQueuesEmpty
        /\ nsteps = 0
        /\ state = inp.start

\* nobody reaches the passenger, which is away from its destination
C9_Witness ==
    /\ pc = "done"
    /\ FeasibleIn(inp.start) = {}
    /\ ret.result[1] = 0
    /\ ret.result[2] > 0
    /\ \E i \in TaxiIds : get_fuel(inp.start, i) > 0

\* the case of C6: strategy H2, no taxi capable alone, some taxi reaches the passenger
C6_Case == inp.h = 2 /\ pc # "start" /\ CapableIn(inp.start) = {} /\ ret.closest_taxi # -1

\* the receiver's fuel covers its way to the transfer point and on to the destination
C6_ReceiverCovers ==
    LET to == 1 - ret.closest_taxi
    IN Dist(graph, get_location(inp.start, to), ret.transfer_point)
         + Dist(graph, ret.transfer_point, get_destination_cors(inp.start, 0))
       < get_fuel(inp.start, to)

\* C6: with H2 and no taxi capable alone, the pickup goes to the closest taxi that
\* reaches the passenger, the transfer point lies on a shortest path from the
\* passenger to the destination within the sender's fuel - 1 after the pickup,
\* the sender puts the passenger down there, and when the receiver's fuel covers
\* transfer point and destination it takes the passenger and the result is (1, 0).
C6_H2Collaboration ==
    C6_Case =>
        LET st0 == inp.start
            from == ret.closest_taxi
            to == 1 - ret.closest_taxi
            P == get_passenger_cors(st0, 0)
            D == get_destination_cors(st0, 0)
            tp == ret.transfer_point
            after == pc \in {"handoff", "receive", "dropoff", "done"}
        IN /\ from \in FeasibleIn(st0)
           /\ \A j \in FeasibleIn(st0) :
                 \/ ToPassengerIn(st0, from) < ToPassengerIn(st0, j)
                 \/ ToPassengerIn(st0, from) = ToPassengerIn(st0, j) /\ from <= j
           /\ pc # "raised"
           /\ after =>
                 /\ Dist(graph, P, tp) + Dist(graph, tp, D) = Dist(graph, P, D)
                 /\ Dist(graph, P, tp) <= get_fuel(st0, from) - ToPassengerIn(st0, from) - 1
           /\ (pc = "handoff" /\ AllQueuesEmpty) =>
                 /\ state.passengers_status[1] = Waiting
                 /\ get_passenger_cors(state, 0) = tp
                 /\ taxis[from + 1].assigned_passengers = <<>>
           /\ (after /\ C6_ReceiverCovers /\ pc = "receive" /\ AllQueuesEmpty) =>
                 state.passengers_status[1] = Riding(to)
           /\ (pc = "done" /\ C6_ReceiverCovers) => ret.result = <<1, 0>>

\* C6 on the maps with two or more columns, where get_path names the moves of
\* its path correctly
C6_H2OnWiderMaps == graph.cols >= 2 => C6_H2Collaboration

\* a delivery by hand-off in which both taxis moved and the passenger was carried
\* by the sender first
C6_HandOffDelivers ==
    /\ C6_Case
    /\ pc = "done"
    /\ C6_ReceiverCovers
    /\ ret.result = <<1, 0>>
    /\ ret.transfer_point # get_passenger_cors(inp.start, 0)
    /\ ret.transfer_point # get_location(inp.start, 1 - ret.closest_taxi)
    /\ get_location(inp.start, ret.closest_taxi) # get_passenger_cors(inp.start, 0)

-----------------------------------------------------------------------------
(* Taxi: the message handlers of the decentralized protocol.  A message is  *)
(* a record holding the keys of the source's dictionary.                    *)

\* message.get('type'): None for a message without the key
TypeOf(message) == IF "type" \in DOMAIN message THEN message.type ELSE "None"

\* Taxi.listen
listen(tx, message) == [tx EXCEPT !.communication_channel = @ \o message]

\* Taxi.pickup_cost: from the last assigned passenger's location when there is one
pickup_cost(g, st, tx, i, passenger_index) ==
    taxi_path_cost(g, st, i, st.passengers_start_location[passenger_index + 1],
        IF tx.assigned_passengers # <<>>
        THEN st.passengers_start_location[
                 tx.assigned_passengers[Len(tx.assigned_passengers)] + 1]
        ELSE <<>>)

\* Taxi.passenger_allocation_message
passenger_allocation_message(g, st, tx, i, passenger_index) ==
    << [taxi_index |-> i, passenger_index |-> passenger_index,
        pickup_cost |-> pickup_cost(g, st, tx, i, passenger_index)] >>

\* mutation: a bid that ties with the best one so far replaces it
RECURSIVE DecideScan_LastSeen(_, _, _)
DecideScan_LastSeen(channel, k, best) ==
    IF k > Len(channel) THEN best
    ELSE DecideScan_LastSeen(channel, k + 1,
                             IF channel[k].pickup_cost <= best[1]
                             THEN <<channel[k].pickup_cost, channel[k].taxi_index>>
                             ELSE best)

\* the loop of decide_assignments: best is <<pickup_cost, assigned_taxi>>
RECURSIVE DecideScan(_, _, _)
DecideScan(channel, k, best) ==
    IF k > Len(channel) THEN best
    ELSE DecideScan(channel, k + 1,
                    IF channel[k].pickup_cost < best[1]
                    THEN <<channel[k].pickup_cost, channel[k].taxi_index>>
                    ELSE best)

\* Taxi.decide_assignments: passenger_index is the one of the last message read
decide_assignments(tx, i) ==
    [tx EXCEPT
        !.assigned_passengers =
            IF DecideScan(tx.communication_channel, 1, <<Inf, -1>>)[2] = i
            THEN Append(@, tx.communication_channel[Len(tx.communication_channel)]
                               .passenger_index)
            ELSE @,
        !.communication_channel = <<>>]

\* the loop of pickup_multiple_passengers over the passengers k, k+1, ... of the list
RECURSIVE PickupScan(_, _, _, _, _)
PickupScan(g, st, assigned, k, origin) ==
    IF k > Len(assigned) THEN <<>>
    ELSE get_path(g, origin, st.passengers_start_location[assigned[k] + 1]).actions
         \o <<ActPickup>>
         \o PickupScan(g, st, assigned, k + 1, st.passengers_start_location[assigned[k] + 1])

\* Taxi.pickup_multiple_passengers
pickup_multiple_passengers(g, st, tx, i) ==
    [tx EXCEPT !.actions_queue =
        @ \o PickupScan(g, st, tx.assigned_passengers, 1, get_location(st, i))]

\* the loop of request_help_message
RECURSIVE HelpScan(_, _, _, _, _)
HelpScan(g, st, i, assigned, k) ==
    IF k > Len(assigned) THEN <<>>
    ELSE (IF taxi_path_cost(g, st, i, st.passengers_destinations[assigned[k] + 1], <<>>)
               >= get_fuel(st, i)
          THEN << [type |-> "help_request", taxi_index |-> i,
                   passenger_index |-> assigned[k]] >>
          ELSE <<>>)
         \o HelpScan(g, st, i, assigned, k + 1)

\* Taxi.request_help_message
request_help_message(g, st, tx, i) == HelpScan(g, st, i, tx.assigned_passengers, 1)

\* the path-response of taxi i to one help-request
PathResponse(g, st, i, incoming_message) ==
    [type |-> "path_response", taxi_index |-> i,
     passenger_index |-> incoming_message.passenger_index,
     shortest_path |-> compute_shortest_path(g, st, i,
                           st.passengers_destinations[incoming_message.passenger_index + 1])
                       .cells,
     recipient_taxi_index |-> incoming_message.taxi_index,
     taxi_fuel |-> get_fuel(st, i)]

\* the loop of passenger_transfer_message: the responses, and the messages kept
RECURSIVE ResponseScan(_, _, _, _, _)
ResponseScan(g, st, i, channel, k) ==
    IF k > Len(channel) THEN <<>>
    ELSE (IF TypeOf(channel[k]) # "help_request" THEN <<>>
          ELSE <<PathResponse(g, st, i, channel[k])>>)
         \o ResponseScan(g, st, i, channel, k + 1)

\* mutation: the whole inbox is cleared
KeptScan_DropsAll(channel, k) == <<>>

RECURSIVE KeptScan(_, _)
KeptScan(channel, k) ==
    IF k > Len(channel) THEN <<>>
    ELSE (IF TypeOf(channel[k]) # "help_request" THEN <<channel[k]>> ELSE <<>>)
         \o KeptScan(channel, k + 1)

\* Taxi.passenger_transfer_message: what it returns, and the taxi afterwards
passenger_transfer_message(g, st, tx, i) == ResponseScan(g, st, i, tx.communication_channel, 1)

after_passenger_transfer_message(tx) ==
    [tx EXCEPT !.communication_channel = KeptScan(tx.communication_channel, 1)]

\* line 380, entry being the minimal (cost, optimal_point) and path_len the length
\* of the helper's path with its location in front
WithDistance(entry, path_len, to_taxi_fuel) ==
    <<entry[1], entry[2], Max(0, entry[1] * 2 + path_len - to_taxi_fuel - 1)>>

\* Taxi.find_best_transfer_point: <<cost, optimal_point, distance_from_destination>>
find_best_transfer_point(g, st, i, to_taxi_index, passenger_index, path_to_dest, to_taxi_fuel) ==
    WithDistance(MinOffRoad(off_road_distances(g, st, i,
                                <<get_location(st, to_taxi_index)>> \o path_to_dest)),
                 Len(path_to_dest) + 1, to_taxi_fuel)

\* lines 318-323: sel is [helping_taxi_index, remaining_dist_to_dest, transfer_point,
\* current_cost], r what find_best_transfer_point returned for the message
Select(sel, helping_taxi, r) ==
    IF r[3] <= sel.remaining_dist_to_dest /\ r[1] < sel.current_cost
    THEN [helping_taxi_index |-> helping_taxi, remaining_dist_to_dest |-> r[3],
          transfer_point |-> r[2], current_cost |-> r[1]]
    ELSE sel

\* the loop of set_transfer_point over the messages k, k+1, ...
RECURSIVE SelectScan(_, _, _, _, _, _)
SelectScan(g, st, i, channel, k, sel) ==
    IF k > Len(channel) THEN sel
    ELSE SelectScan(g, st, i, channel, k + 1,
            Select(sel, channel[k].taxi_index,
                   find_best_transfer_point(g, st, i, channel[k].taxi_index,
                       channel[k].passenger_index, channel[k].shortest_path,
                       channel[k].taxi_fuel)))

\* lines 303-323 of set_transfer_point
Selection(g, st, tx, i) ==
    SelectScan(g, st, i, tx.communication_channel, 1,
        [helping_taxi_index |-> i,
         remaining_dist_to_dest |->
             taxi_path_cost(g, st, i, st.passengers_destinations[tx.assigned_passengers[1] + 1],
                            <<>>) - get_fuel(st, i),
         transfer_point |-> st.passengers_destinations[tx.assigned_passengers[1] + 1],
         current_cost |-> Inf])

\* set_transfer_point returns at once
set_transfer_point_skips(tx) ==
    tx.communication_channel = <<>> \/ tx.assigned_passengers = <<>>

\* set_transfer_point raises when a message of its channel is no path-response:
\* the path it reads from the message is None
set_transfer_point_raises(tx) ==
    /\ ~ set_transfer_point_skips(tx)
    /\ \E k \in 1 .. Len(tx.communication_channel) :
          TypeOf(tx.communication_channel[k]) # "path_response"

\* the channel when set_transfer_point raised: find_best_transfer_point put the
\* helper's location in front of the path of every message read before (line 355
\* inserts into the list the message holds); message k is the next one read
RECURSIVE ReadUntilRaise(_, _, _)
ReadUntilRaise(st, channel, k) ==
    IF k > Len(channel) THEN <<>>
    ELSE IF TypeOf(channel[k]) # "path_response" THEN SubSeq(channel, k, Len(channel))
    ELSE << [channel[k] EXCEPT !.shortest_path =
                                   <<get_location(st, channel[k].taxi_index)>> \o @] >>
         \o ReadUntilRaise(st, channel, k + 1)

\* the taxi after a call of set_transfer_point that raised
after_set_transfer_point_raised(st, tx) ==
    [tx EXCEPT !.communication_channel = ReadUntilRaise(st, @, 1)]

\* lines 325-328: the taxi after set_transfer_point, sel being the selection
after_set_transfer_point(g, st, tx, i, sel) ==
    send_taxi_to_dropoff(g, st, [tx EXCEPT !.communication_channel = <<>>], i,
                         sel.transfer_point)

\* lines 330-339: what set_transfer_point returns
transfer_message(tx, i, sel) ==
    IF sel.helping_taxi_index # i
    THEN << [type |-> "transfer_message", helping_taxi |-> sel.helping_taxi_index,
             transfer_point |-> sel.transfer_point, taxi_index |-> i,
             passenger_index |-> tx.communication_channel[Len(tx.communication_channel)]
                                    .passenger_index] >>
    ELSE <<>>

\* the loop of intermediate_pickup: the moves queued, and the passengers assigned
RECURSIVE IntermediateMoves(_, _, _, _, _)
IntermediateMoves(g, st, i, channel, k) ==
    IF k > Len(channel) THEN <<>>
    ELSE compute_shortest_path(g, st, i, channel[k].transfer_point).actions
         \o IntermediateMoves(g, st, i, channel, k + 1)

\* mutation: the taxi is also queued to pick the passenger up once it is there
intermediate_pickup_AndPickup(g, st, tx, i) ==
    [actions_queue |-> tx.actions_queue
                         \o IntermediateMoves(g, st, i, tx.communication_channel, 1)
                         \o (IF tx.communication_channel # <<>> THEN <<ActPickup>> ELSE <<>>),
     assigned_passengers |-> tx.assigned_passengers
                         \o [k \in 1 .. Len(tx.communication_channel) |->
                                tx.communication_channel[k].passenger_index],
     communication_channel |-> <<>>]

\* Taxi.intermediate_pickup
intermediate_pickup(g, st, tx, i) ==
    [actions_queue |-> tx.actions_queue
                         \o IntermediateMoves(g, st, i, tx.communication_channel, 1),
     assigned_passengers |-> tx.assigned_passengers
                         \o [k \in 1 .. Len(tx.communication_channel) |->
                                tx.communication_channel[k].passenger_index],
     communication_channel |-> <<>>]

-----------------------------------------------------------------------------
(* Decentralized_Control_Example.decentralized_control with one passenger: *)
(* each loop over the taxis runs one taxi per action, pc.k being the taxi   *)
(* whose turn it is; the loops of execute_all_actions run one iteration per *)
(* DecExecStep.                                                             *)

DecShapes == {<<Map1x3, 1>>, <<Map1x3, 2>>, <<Map1x3, 3>>, <<Map2x2, 2>>}

DecInit ==
    /\ \E sh \in DecShapes :
          /\ desc = sh[1]
          /\ graph = EnvGraph(desc)
          /\ \E locs \in [1 .. sh[2] -> Cells(graph)], fs \in [1 .. sh[2] -> 0 .. MaxFuel],
                p \in Cells(graph), d \in Cells(graph) :
                state = [taxis_locations |-> locs, fuels |-> fs,
                         passengers_start_location |-> <<p>>, passengers_destinations |-> <<d>>,
                         passengers_status |-> <<Waiting>>]
    /\ taxis = [k \in 1 .. Len(state.fuels) |-> NewTaxi]
    /\ inp = [passenger_index |-> 0, start |-> state]
    /\ ret = [picked_up_by |-> -1, sender |-> -1, helping_taxi |-> -1, transfer_point |-> <<>>,
              at_transfer |-> state]
    /\ nsteps = 0
    /\ pc = [phase |-> "bids", k |-> 0]

num_taxis == Len(taxis)

\* the next turn of the loop over the taxis, or the first turn of the next phase
Turn(phase, k, next_phase) ==
    IF k + 1 < num_taxis THEN [phase |-> phase, k |-> k + 1]
    ELSE [phase |-> next_phase, k |-> 0]

\* lines 26-28: taxi pc.k sends its bid for the passenger to every taxi
BroadcastBid ==
    /\ pc.phase = "bids"
    /\ \E message \in {passenger_allocation_message(graph, state, taxis[pc.k + 1], pc.k,
                                                    inp.passenger_index)} :
          taxis' = [j \in 1 .. num_taxis |-> listen(taxis[j], message)]
    /\ pc' = Turn("bids", pc.k, "decide")
    /\ UNCHANGED <<desc, graph, state, inp, ret, nsteps>>

\* lines 31-32
Decide ==
    /\ pc.phase = "decide"
    /\ taxis' = [taxis EXCEPT ![pc.k + 1] = decide_assignments(@, pc.k)]
    /\ ret' = IF taxis'[pc.k + 1].assigned_passengers # <<>>
              THEN [ret EXCEPT !.picked_up_by = pc.k] ELSE ret
    /\ pc' = Turn("decide", pc.k, "plan_pickup")
    /\ UNCHANGED <<desc, graph, state, inp, nsteps>>

\* lines 35-36
PlanPickup ==
    /\ pc.phase = "plan_pickup"
    /\ taxis' = [taxis EXCEPT ![pc.k + 1] = pickup_multiple_passengers(graph, state, @, pc.k)]
    /\ pc' = Turn("plan_pickup", pc.k, "exec_pickup")
    /\ UNCHANGED <<desc, graph, state, inp, ret, nsteps>>

DecNextPhase(phase) ==
    IF phase = "exec_pickup" THEN "help"
    ELSE IF phase = "exec_transfer" THEN "final"
    ELSE "done"

\* one iteration of the loop of execute_all_actions (lines 78-82)
DecExecStep ==
    /\ pc.phase \in {"exec_pickup", "exec_transfer", "exec_final"}
    /\ any_actions_left(taxis)
    /\ state' = env_step(desc, state, next_step_map(taxis), 0)
    /\ taxis' = pop_heads(taxis)
    /\ nsteps' = nsteps + 1
    /\ UNCHANGED <<desc, graph, inp, ret, pc>>

\* the loop of execute_all_actions ends
DecExecDone ==
    /\ pc.phase \in {"exec_pickup", "exec_transfer", "exec_final"}
    /\ ~ any_actions_left(taxis)
    /\ pc' = [phase |-> DecNextPhase(pc.phase), k |-> 0]
    /\ UNCHANGED <<desc, graph, state, taxis, inp, ret, nsteps>>

\* lines 42-45: taxi pc.k asks every other taxi for help
RequestHelp ==
    /\ pc.phase = "help"
    /\ \E help_message \in {request_help_message(graph, state, taxis[pc.k + 1], pc.k)} :
          taxis' = [j \in 1 .. num_taxis |->
                       IF j - 1 # pc.k THEN listen(taxis[j], help_message) ELSE taxis[j]]
    /\ pc' = Turn("help", pc.k, "respond")
    /\ UNCHANGED <<desc, graph, state, inp, ret, nsteps>>

\* the messages of the list addressed to taxi j, in order
RECURSIVE For(_, _, _, _)
For(messages, key, j, k) ==
    IF k > Len(messages) THEN <<>>
    ELSE (IF messages[k][key] = j THEN <<messages[k]>> ELSE <<>>)
         \o For(messages, key, j, k + 1)

\* lines 48-50: taxi pc.k answers the help-requests of its channel
Respond ==
    /\ pc.phase = "respond"
    /\ \E taxi_messages \in {passenger_transfer_message(graph, state, taxis[pc.k + 1], pc.k)} :
          taxis' = [j \in 1 .. num_taxis |->
                       listen(IF j - 1 = pc.k THEN after_passenger_transfer_message(taxis[j])
                              ELSE taxis[j],
                              For(taxi_messages, "recipient_taxi_index", j - 1, 1))]
    /\ pc' = Turn("respond", pc.k, "negotiate")
    /\ UNCHANGED <<desc, graph, state, inp, ret, nsteps>>

\* lines 53-56: taxi pc.k chooses its helper and its transfer point
Negotiate ==
    /\ pc.phase = "negotiate"
    /\ IF set_transfer_point_skips(taxis[pc.k + 1])
       THEN /\ pc' = Turn("negotiate", pc.k, "intermediate")
            /\ UNCHANGED <<taxis, ret>>
       ELSE IF set_transfer_point_raises(taxis[pc.k + 1])
       THEN /\ pc' = [phase |-> "raised", k |-> pc.k]
            /\ taxis' = [taxis EXCEPT ![pc.k + 1] =
                            after_set_transfer_point_raised(state, @)]
            /\ UNCHANGED ret
       ELSE \E sel \in {Selection(graph, state, taxis[pc.k + 1], pc.k)} :
            \E out \in {transfer_message(taxis[pc.k + 1], pc.k, sel)} :
               /\ taxis' = [j \in 1 .. num_taxis |->
                               listen(IF j - 1 = pc.k
                                      THEN after_set_transfer_point(graph, state, taxis[j],
                                                                    pc.k, sel)
                                      ELSE taxis[j],
                                      For(out, "helping_taxi", j - 1, 1))]
               /\ ret' = [ret EXCEPT !.sender = pc.k,
                                     !.helping_taxi = sel.helping_taxi_index,
                                     !.transfer_point = sel.transfer_point,
                                     !.at_transfer = state]
               /\ pc' = Turn("negotiate", pc.k, "intermediate")
    /\ UNCHANGED <<desc, graph, state, inp, nsteps>>

\* lines 59-60
IntermediatePickup ==
    /\ pc.phase = "intermediate"
    /\ taxis' = [taxis EXCEPT ![pc.k + 1] = intermediate_pickup(graph, state, @, pc.k)]
    /\ pc' = Turn("intermediate", pc.k, "exec_transfer")
    /\ UNCHANGED <<desc, graph, state, inp, ret, nsteps>>

\* lines 66-68
FinalPlan ==
    /\ pc.phase = "final"
    /\ taxis' = [taxis EXCEPT ![pc.k + 1] =
                    send_taxi_to_dropoff(graph, state,
                        send_taxi_to_pickup(graph, state, @, pc.k, None), pc.k, <<>>)]
    /\ pc' = Turn("final", pc.k, "exec_final")
    /\ UNCHANGED <<desc, graph, state, inp, ret, nsteps>>

DecNext ==
    \/ BroadcastBid
    \/ Decide
    \/ PlanPickup
    \/ DecExecStep
    \/ DecExecDone
    \/ RequestHelp
    \/ Respond
    \/ Negotiate
    \/ IntermediatePickup
    \/ FinalPlan

SpecDecentralized == DecInit /\ [][DecNext]_vars

\* C5: with at most 3 taxis and one passenger the decentralized rounds give the
\* passenger to the taxi find_closest_taxi names for the initial state, and the
\* transfer point set with a helper is the one find_transfer_point_h1 computes
\* for the same sender and that helper.
C5_DecentralizedMatchesCentralized ==
    /\ pc.phase \notin {"bids", "decide"} =>
          ret.picked_up_by = find_closest_taxi(graph, inp.start,
                                 get_passenger_cors(inp.start, inp.passenger_index))
    /\ (ret.sender # -1 /\ ret.helping_taxi # ret.sender) =>
          ret.transfer_point = find_transfer_point_h1(graph, ret.at_transfer, ret.sender,
                                   ret.helping_taxi, inp.passenger_index)

-----------------------------------------------------------------------------
(* One taxi and two passengers: the planning calls of the Taxi wrapper made *)
(* in any order, the queue drained one action at a time in between, each    *)
(* action taken by get_next_step being handed to the environment's step     *)
(* before the next call (taxi_wrapper_demo.py lines 19-22); nsteps          *)
(* counts the planning calls made.  The taxi starts in the corner cell and  *)
(* gets to the other cells by draining its queue; both passengers have the  *)
(* same destination.                                                        *)

MaxCalls == 2

TaxiMaps == {Map1x3, Map2x2}

TaxiInit ==
    /\ desc \in TaxiMaps
    /\ graph = EnvGraph(desc)
    /\ \E p \in [1 .. 2 -> Cells(graph)], d \in Cells(graph) :
          state = [taxis_locations |-> << <<0, 0>> >>, fuels |-> <<MaxFuel>>,
                   passengers_start_location |-> p, passengers_destinations |-> <<d, d>>,
                   passengers_status |-> <<Waiting, Waiting>>]
    /\ \E assigned_passengers \in {<<>>, <<0>>, <<1>>, <<1, 0>>} :
          taxis = << [NewTaxi EXCEPT !.assigned_passengers = assigned_passengers] >>
    /\ inp = [op |-> "none", arg |-> None]
    /\ ret = [before |-> taxis[1], next_action |-> None, previous_op |-> "none"]
    /\ nsteps = 0
    /\ pc = "idle"

\* taxi.send_taxi_to_pickup(passenger_index), or taxi.send_taxi_to_pickup()
CallSendToPickup ==
    /\ pc = "idle"
    /\ nsteps < MaxCalls
    /\ \E passenger_index \in {None, 0, 1} :
          /\ inp' = [op |-> "send_taxi_to_pickup", arg |-> passenger_index]
          /\ IF send_taxi_to_pickup_raises(taxis[1], passenger_index)
             THEN pc' = "raised" /\ UNCHANGED taxis
             ELSE /\ taxis' = <<send_taxi_to_pickup(graph, state, taxis[1], 0, passenger_index)>>
                  /\ pc' = "idle"
    /\ ret' = [ret EXCEPT !.before = taxis[1], !.previous_op = inp.op]
    /\ nsteps' = nsteps + 1
    /\ UNCHANGED <<desc, graph, state>>

\* taxi.send_taxi_to_dropoff(point), or taxi.send_taxi_to_dropoff()
CallSendToDropoff ==
    /\ pc = "idle"
    /\ nsteps < MaxCalls
    /\ \E point \in {<<>>} \cup Cells(graph) :
          /\ inp' = [op |-> "send_taxi_to_dropoff", arg |-> point]
          /\ taxis' = <<send_taxi_to_dropoff(graph, state, taxis[1], 0, point)>>
    /\ ret' = [ret EXCEPT !.before = taxis[1], !.previous_op = inp.op]
    /\ nsteps' = nsteps + 1
    /\ UNCHANGED <<desc, graph, state, pc>>

\* taxi.send_taxi_to_point(point)
CallSendToPoint ==
    /\ pc = "idle"
    /\ nsteps < MaxCalls
    /\ \E point \in Cells(graph) :
          /\ inp' = [op |-> "send_taxi_to_point", arg |-> point]
          /\ taxis' = <<send_taxi_to_point(graph, state, taxis[1], 0, point)>>
    /\ ret' = [ret EXCEPT !.before = taxis[1], !.previous_op = inp.op]
    /\ nsteps' = nsteps + 1
    /\ UNCHANGED <<desc, graph, state, pc>>

\* mutation: the action itself is tested for truth, so action 0 reads as absence
get_next_step_TestsAction(tx) ==
    IF tx.actions_queue # <<>> /\ Head(tx.actions_queue) # 0 THEN Head(tx.actions_queue) ELSE None

\* Taxi.get_next_step: the head of the queue, None when the queue is empty
get_next_step(tx) == IF tx.actions_queue # <<>> THEN Head(tx.actions_queue) ELSE None

\* the taxi after Taxi.get_next_step
after_get_next_step(tx) ==
    IF tx.actions_queue # <<>> THEN [tx EXCEPT !.actions_queue = Tail(@)] ELSE tx

\* taxi.get_next_step(): the queue loses its head and nothing else changes; the
\* caller, which got an action, has the environment's step to call next
CallGetNextStep ==
    /\ pc = "idle"
    /\ inp' = [op |-> "get_next_step", arg |-> None]
    /\ ret' = [before |-> taxis[1], next_action |-> get_next_step(taxis[1]),
               previous_op |-> inp.op]
    /\ taxis' = <<after_get_next_step(taxis[1])>>
    /\ pc' = IF get_next_step(taxis[1]) # None THEN "step" ELSE "idle"
    /\ inp # inp' \/ taxis # taxis'
    /\ UNCHANGED <<desc, graph, state, nsteps>>

\* env.step({'taxi_1': next_step}) with the action get_next_step returned
CallEnvStep ==
    /\ pc = "step"
    /\ state' = env_step(desc, state, [i \in {0} |-> ret.next_action], 0)
    /\ pc' = "idle"
    /\ UNCHANGED <<desc, graph, taxis, inp, ret, nsteps>>

TaxiNext ==
    \/ CallSendToPickup
    \/ CallSendToDropoff
    \/ CallSendToPoint
    \/ CallGetNextStep
    \/ CallEnvStep

SpecTaxi == TaxiInit /\ [][TaxiNext]_vars

\* C10: send_taxi_to_pickup(k) appends, for every passenger index k and whatever
\* is assigned, the moves of the shortest path from the taxi's location to
\* passenger k followed by one pickup; without an argument and with nothing
\* assigned it leaves the queue and the assignment list as they were.
C10_PickupQueued ==
    inp.op = "send_taxi_to_pickup" =>
        /\ pc # "raised"
        /\ inp.arg # None =>
              /\ taxis[1].actions_queue =
                    ret.before.actions_queue
                    \o compute_shortest_path(graph, state, 0,
                           get_passenger_cors(state, inp.arg)).actions
                    \o <<ActPickup>>
              /\ taxis[1].assigned_passengers = ret.before.assigned_passengers
        /\ (inp.arg = None /\ ret.before.assigned_passengers = <<>>) =>
              taxis[1] = ret.before

\* the cell send_taxi_to_dropoff is to reach: the point given, the destination of
\* the head passenger when none is given
DropoffTarget ==
    IF inp.arg # <<>> THEN inp.arg
    ELSE get_destination_cors(state, ret.before.assigned_passengers[1])

\* C11: with passengers assigned, send_taxi_to_dropoff(point) appends the moves of
\* the shortest path from the taxi's location to the point (to the head
\* passenger's destination without a point), then one dropoff tagged with the
\* head passenger, and removes the head of the assignment list only.
C11_DropoffQueued ==
    (inp.op = "send_taxi_to_dropoff" /\ ret.before.assigned_passengers # <<>>) =>
        /\ pc # "raised"
        /\ taxis[1].actions_queue =
              ret.before.actions_queue
              \o compute_shortest_path(graph, state, 0, DropoffTarget).actions
              \o <<ActDropoff(ret.before.assigned_passengers[1])>>
        /\ Len(taxis[1].actions_queue) =
              Len(ret.before.actions_queue)
              + Dist(graph, get_location(state, 0), DropoffTarget) + 1
        /\ taxis[1].assigned_passengers = Tail(ret.before.assigned_passengers)
        /\ taxis[1].communication_channel = ret.before.communication_channel

\* a dropoff without a point queued behind earlier actions, away from the
\* destination, by a taxi holding passenger 1 before passenger 0
C11_Witness ==
    /\ inp.op = "send_taxi_to_dropoff"
    /\ inp.arg = <<>>
    /\ ret.before.assigned_passengers = <<1, 0>>
    /\ ret.before.actions_queue # <<>>
    /\ taxis[1].assigned_passengers = <<0>>
    /\ get_location(state, 0) # get_destination_cors(state, 1)
    /\ Len(taxis[1].actions_queue) >= Len(ret.before.actions_queue) + 2

\* C12: send_taxi_to_dropoff on a taxi with no assigned passenger, with or without
\* a point, first or repeated, raises nothing and leaves the action queue, the
\* assignment list and the communication channel as they were.
C12_DropoffWithoutPassenger ==
    (inp.op = "send_taxi_to_dropoff" /\ ret.before.assigned_passengers = <<>>) =>
        /\ pc # "raised"
        /\ taxis[1].actions_queue = ret.before.actions_queue
        /\ taxis[1].assigned_passengers = <<>>
        /\ taxis[1].communication_channel = ret.before.communication_channel

\* two calls in a row, the second with a point away from the taxi, on a taxi that
\* never had a passenger
C12_Witness ==
    /\ inp.op = "send_taxi_to_dropoff"
    /\ ret.previous_op = "send_taxi_to_dropoff"
    /\ nsteps = 2
    /\ ret.before.assigned_passengers = <<>>
    /\ ret.before.actions_queue = <<>>
    /\ inp.arg # <<>>
    /\ inp.arg # get_location(state, 0)
    /\ taxis[1] = ret.before

\* C13: Taxi.get_next_step returns the head of the action queue and removes exactly
\* that one action, so actions come back in the order they were appended; it returns
\* None exactly when the queue is empty, and action 0 (south) is returned as an action.
C13_NextStepFifo ==
    inp.op = "get_next_step" =>
        /\ (ret.next_action = None) <=> (ret.before.actions_queue = <<>>)
        /\ ret.before.actions_queue # <<>> =>
              /\ ret.next_action = ret.before.actions_queue[1]
              /\ ret.before.actions_queue = <<ret.next_action>> \o taxis[1].actions_queue
        /\ ret.before.actions_queue = <<>> => taxis[1].actions_queue = <<>>
        /\ taxis[1].assigned_passengers = ret.before.assigned_passengers
        /\ taxis[1].communication_channel = ret.before.communication_channel

\* a second call in a row returns south (0) from a queue that holds more behind it
C13_Witness ==
    /\ inp.op = "get_next_step"
    /\ ret.previous_op = "get_next_step"
    /\ ret.next_action = 0
    /\ Len(ret.before.actions_queue) >= 2
    /\ taxis[1].actions_queue = Tail(ret.before.actions_queue)

-----------------------------------------------------------------------------
(* SpecExec: Controller.execute_all_actions and the execute_all_actions of   *)
(* Decentralized_Control_Example run from arbitrary queue contents of two    *)
(* taxis; inp.driver says which of the two loops runs, inp.queues keeps the  *)
(* queues the loop started from, nsteps counts the calls of taxi_env.step.   *)
(* ret is the action map of the last call of taxi_env.step.                 *)

MaxQueue == 3

ExecActions == {0, 2, ActPickup}

BoundedSeq(S, n) == UNION {[1 .. k -> S] : k \in 0 .. n}

ExecInit ==
    /\ desc = Map2x2
    /\ graph = EnvGraph(desc)
    /\ state = [taxis_locations |-> << <<0, 0>>, <<0, 1>> >>, fuels |-> <<MaxFuel, 1>>,
                passengers_start_location |-> << <<1, 0>> >>,
                passengers_destinations |-> << <<1, 1>> >>,
                passengers_status |-> <<Waiting>>]
    /\ \E q0 \in BoundedSeq(ExecActions, MaxQueue), q1 \in BoundedSeq(ExecActions, MaxQueue) :
          taxis = << [NewTaxi EXCEPT !.actions_queue = q0],
                     [NewTaxi EXCEPT !.actions_queue = q1] >>
    /\ \E driver \in {"controller", "decentralized"} :
          inp = [driver |-> driver, queues |-> <<taxis[1].actions_queue, taxis[2].actions_queue>>]
    /\ ret = <<>>
    /\ nsteps = 0
    /\ pc = "loop"

\* Controller.execute_all_actions: get_next_step gave a non-empty map, which is
\* passed to the environment's step
ControllerExecStep ==
    /\ pc = "loop"
    /\ inp.driver = "controller"
    /\ any_actions_left(taxis)
    /\ DOMAIN next_step_map(taxis) # {}
    /\ state' = env_step(desc, state, next_step_map(taxis), 0)
    /\ taxis' = pop_heads(taxis)
    /\ nsteps' = nsteps + 1
    /\ ret' = next_step_map(taxis)
    /\ UNCHANGED <<desc, graph, inp, pc>>

\* Controller.execute_all_actions: get_next_step gave None or an empty map
ControllerExecDone ==
    /\ pc = "loop"
    /\ inp.driver = "controller"
    /\ ~ (any_actions_left(taxis) /\ DOMAIN next_step_map(taxis) # {})
    /\ taxis' = IF any_actions_left(taxis) THEN pop_heads(taxis) ELSE taxis
    /\ pc' = "done"
    /\ UNCHANGED <<desc, graph, state, inp, ret, nsteps>>

\* execute_all_actions of the decentralized example: one iteration of its loop
DriverExecStep ==
    /\ pc = "loop"
    /\ inp.driver = "decentralized"
    /\ any_actions_left(taxis)
    /\ state' = env_step(desc, state, next_step_map(taxis), 0)
    /\ taxis' = pop_heads(taxis)
    /\ nsteps' = nsteps + 1
    /\ ret' = next_step_map(taxis)
    /\ UNCHANGED <<desc, graph, inp, pc>>

\* execute_all_actions of the decentralized example: any(actions) is false
DriverExecDone ==
    /\ pc = "loop"
    /\ inp.driver = "decentralized"
    /\ ~ any_actions_left(taxis)
    /\ pc' = "done"
    /\ UNCHANGED <<desc, graph, state, taxis, inp, ret, nsteps>>

ExecNext ==
    \/ ControllerExecStep
    \/ ControllerExecDone
    \/ DriverExecStep
    \/ DriverExecDone

SpecExec == ExecInit /\ [][ExecNext]_vars

\* the loops are sequential code that keeps running until its condition fails
SpecExecFair == SpecExec /\ WF_vars(ExecNext)

\* C14: from any contents of the queues, both execute_all_actions loops end, with
\* every queue empty, after exactly as many calls of the environment's step as the
\* longest initial queue has actions.
C14_ExecTerminates ==
    <>[](/\ pc = "done"
         /\ AllQueuesEmpty
         /\ nsteps = Max(Len(inp.queues[1]), Len(inp.queues[2])))

\* a loop that ended after draining queues of different lengths, the longer one
\* starting with south (0)
C14_Witness ==
    /\ pc = "done"
    /\ inp.driver = "controller"
    /\ Len(inp.queues[2]) > Len(inp.queues[1])
    /\ Len(inp.queues[1]) > 0
    /\ inp.queues[2][1] = 0
    /\ nsteps = Len(inp.queues[2])
    /\ AllQueuesEmpty

-----------------------------------------------------------------------------
(* Claims on EnvGraph.get_path and EnvGraph.path_cost, under SpecGraph *)

\* C15: for every map and every cell x, get_path(x, x) returns an empty cell list and
\* an empty action list, and path_cost(x, x) is 0.
C15_PathToSelf ==
    (pc = "done" /\ inp.origin = inp.dest) =>
        /\ ret.ok
        /\ ret.cells = <<>>
        /\ ret.actions = <<>>
        /\ path_cost(graph, inp.origin, inp.dest) = 0

\* get_path was called with a cell of the 3x3 map as origin and as target
C15_Witness ==
    /\ pc = "done"
    /\ desc = Map3x3
    /\ inp.origin = <<1, 2>>
    /\ inp.dest = inp.origin
    /\ ret.cells = <<>>

\* C16: for cells a, b with a path between them, path_cost(a, b) = path_cost(b, a).
C16_CostSymmetric ==
    (pc = "done" /\ ret.ok) =>
        /\ get_path(graph, inp.dest, inp.origin).ok
        /\ path_cost(graph, inp.origin, inp.dest) = path_cost(graph, inp.dest, inp.origin)
        /\ path_cost(graph, inp.origin, inp.dest) = Len(ret.actions)

\* a path of the 3x3 map that has to go around a wall
C16_Witness ==
    /\ pc = "done"
    /\ desc = Map3x3
    /\ ret.ok
    /\ inp.origin = <<0, 0>>
    /\ inp.dest = <<0, 1>>
    /\ Len(ret.actions) = 3
    /\ path_cost(graph, inp.dest, inp.origin) = 3

-----------------------------------------------------------------------------
(* SpecBuild: EnvGraph.__init__ on map descriptions of a 2 x 2 grid that may *)
(* be malformed: each inner wall and each right border mark is "|" or ":",   *)
(* each bottom border mark is "-" or " ", and each of the four lines is two  *)
(* characters shorter, as long as, or two characters longer than it should.  *)

Resize(line, w) ==
    IF w < 0 THEN SubSeq(line, 1, Len(line) - 2)
    ELSE IF w > 0 THEN line \o <<" ", "|">>
    ELSE line

BuildMaps ==
    { << Resize(<<"+", "-", "-", "-", "+">>, w[1]),
         Resize(<<"|", " ", iw[1], " ", rb[1]>>, w[2]),
         Resize(<<"|", " ", iw[2], " ", rb[2]>>, w[3]),
         Resize(<<"+", bb[1], "-", bb[2], "+">>, w[4]) >> :
        iw \in [1 .. 2 -> {"|", ":"}], rb \in [1 .. 2 -> {"|", ":"}],
        bb \in [1 .. 2 -> {"-", " "}], w \in [1 .. 4 -> {-1, 0, 1}] }

NoGraph == [rows |-> 0, cols |-> 0, adj |-> <<>>]

\* EnvGraph.__init__ raises: at some node a mark is read past the end of its line
\* (IndexError), or add_edge creates a node while the loop iterates over the nodes
\* (RuntimeError: dictionary changed size during iteration)
EnvGraph_raises(d) ==
    LET rows == Len(d) - 2
        cols == Len(d[1]) \div 2
        n == rows * cols
    IN \E i \in 0 .. n - 1 :
          LET row == i \div cols
              col == i % cols
          IN \/ col * 2 + 2 > Len(d[row + 3])
             \/ /\ d[row + 3][col * 2 + 2] # "-"
                /\ cors_to_node(cols, row + 1, col) \notin 0 .. n - 1
             \/ col * 2 + 3 > Len(d[row + 2])
             \/ /\ d[row + 2][col * 2 + 3] = ":"
                /\ cors_to_node(cols, row, col + 1) \notin 0 .. n - 1

BuildInit ==
    /\ desc \in BuildMaps
    /\ graph = NoGraph
    /\ state = NoState
    /\ taxis = <<>>
    /\ inp = <<>>
    /\ ret = <<>>
    /\ nsteps = 0
    /\ pc = "start"

\* EnvGraph(desc)
Construct ==
    /\ pc = "start"
    /\ IF EnvGraph_raises(desc)
       THEN pc' = "raised" /\ graph' = graph
       ELSE pc' = "built" /\ graph' = EnvGraph(desc)
    /\ UNCHANGED <<desc, state, taxis, inp, ret, nsteps>>

BuildNext == Construct

SpecBuild == BuildInit /\ [][BuildNext]_vars

UnequalRows(d) == \E r \in 1 .. Len(d) : Len(d[r]) # Len(d[1])

\* with rows of equal length: a bottom border mark is not "-", or a right border
\* mark is ":", so that the constructor adds an edge out of the grid
BorderOpen(d) ==
    LET rows == Len(d) - 2
        cols == Len(d[1]) \div 2
    IN \/ \E col \in 0 .. cols - 1 : d[rows + 2][col * 2 + 2] # "-"
       \/ \E row \in 0 .. rows - 1 : d[row + 2][cols * 2 + 1] = ":"

Malformed(d) == UnequalRows(d) \/ BorderOpen(d)

NodesInGrid(g) == DOMAIN g.adj \subseteq 0 .. g.rows * g.cols - 1

EdgesJoinNeighbours(g) ==
    \A u \in DOMAIN g.adj : \A k \in 1 .. Len(g.adj[u]) :
        LET a == node_to_cors(g.cols, u)
            b == node_to_cors(g.cols, g.adj[u][k])
        IN \/ a[1] = b[1] /\ (a[2] - b[2]) \in {-1, 1}
           \/ a[2] = b[2] /\ (a[1] - b[1]) \in {-1, 1}

\* C17: the constructor fails on a malformed description (rows of unequal length,
\* or an open bottom or right border); a graph that was constructed has its nodes
\* in 0 .. rows*cols - 1 and its edges between 4-neighbours only.
C17_MalformedMapFails ==
    pc = "built" =>
        /\ ~ Malformed(desc)
        /\ NodesInGrid(graph)
        /\ EdgesJoinNeighbours(graph)

-----------------------------------------------------------------------------
(* Claims on the transfer points, under SpecTransfer *)

\* the cells the sender reaches with one unit of fuel to spare
SenderCells ==
    {c \in Cells(graph) :
        Dist(graph, get_location(state, inp.from_taxi_index), c)
            <= get_fuel(state, inp.from_taxi_index) - 1}

ReceiverReaches(c) ==
    Dist(graph, get_location(state, inp.to_taxi_index), c)
        <= get_fuel(state, inp.to_taxi_index) - 1

ToDestination(c) == Dist(graph, c, get_destination_cors(state, inp.passenger_index))

\* the score with the sender's cost to the cell in the sum
SenderSumScore(c) ==
    IF ~ ReceiverReaches(c) THEN ToDestination(c)
    ELSE Max(0, (Dist(graph, get_location(state, inp.from_taxi_index), c) + ToDestination(c))
                   - (get_fuel(state, inp.to_taxi_index) - 1))

\* the score with the receiver's cost to the cell in the sum
ReceiverSumScore(c) ==
    IF ~ ReceiverReaches(c) THEN ToDestination(c)
    ELSE Max(0, (Dist(graph, get_location(state, inp.to_taxi_index), c) + ToDestination(c))
                   - (get_fuel(state, inp.to_taxi_index) - 1))

\* the cell of S with the least score, the first one in row-major order on ties
FirstBest(S, Score(_)) ==
    CHOOSE c \in S : \A e \in S :
        \/ Score(c) < Score(e)
        \/ /\ Score(c) = Score(e)
           /\ cors_to_node(graph.cols, c[1], c[2]) <= cors_to_node(graph.cols, e[1], e[2])

\* C18 as stated: find_optimal_transfer_point returns, among the cells the sender
\* reaches within fuel - 1, the first cell in row-major order of least score, where
\* a cell the receiver does not reach within its fuel - 1 scores its distance to the
\* destination and any other cell scores
\* max(0, (sender cost to cell + cost from cell to destination) - (receiver fuel - 1)).
C18_OptimalBySenderSum ==
    (pc = "optimal" /\ SenderCells # {}) =>
        ret.optimal.best_transfer_point = FirstBest(SenderCells, SenderSumScore)

\* C18 amended: the same with the receiver's cost to the cell in the sum,
\* max(0, (receiver cost to cell + cost from cell to destination) - (receiver fuel - 1));
\* when the sender reaches no cell (fuel 0) the empty list is returned.
C18_OptimalByReceiverSum ==
    pc = "optimal" =>
        IF SenderCells = {}
        THEN ret.optimal.best_transfer_point = <<>>
        ELSE /\ ret.optimal.best_transfer_point = FirstBest(SenderCells, ReceiverSumScore)
             /\ ret.optimal.min_dist_from_dest
                   = ReceiverSumScore(ret.optimal.best_transfer_point)

\* taxis apart from each other, several cells tie for the least score, and the two
\* scores pick different cells
C18_Witness ==
    /\ pc = "optimal"
    /\ get_location(state, 0) # get_location(state, 1)
    /\ Cardinality(SenderCells) >= 2
    /\ \E c \in SenderCells : \E e \in SenderCells :
          c # e /\ ReceiverSumScore(c) = ReceiverSumScore(e)
               /\ ReceiverSumScore(c) = ret.optimal.min_dist_from_dest
    /\ \E c \in SenderCells : ReceiverReaches(c) /\ ReceiverSumScore(c) > 0
    /\ ret.optimal.best_transfer_point # FirstBest(SenderCells, SenderSumScore)

\* the candidates of H1: the receiver's location, then the cells of its shortest
\* path to the passenger's destination
H1Cands ==
    <<get_location(state, inp.to_taxi_index)>> \o
    compute_shortest_path(graph, state, inp.to_taxi_index,
                          get_destination_cors(state, inp.passenger_index)).cells

\* the moves toward the candidate that the sender's fuel - 1 does not cover
H1Shortfall(c) ==
    Max(0, path_cost(graph, get_location(state, inp.from_taxi_index), c)
              - (get_fuel(state, inp.from_taxi_index) - 1))

\* the first candidate, in path order, of minimal shortfall
H1Chosen ==
    H1Cands[CHOOSE k \in 1 .. Len(H1Cands) :
               \A j \in 1 .. Len(H1Cands) :
                   /\ H1Shortfall(H1Cands[k]) <= H1Shortfall(H1Cands[j])
                   /\ j < k => H1Shortfall(H1Cands[j]) > H1Shortfall(H1Cands[k])]

\* the cell at step fuel - 1 of the sender's shortest path toward c: step 0 is the
\* sender's own location, which is also where a sender without fuel stays
H1StepCell(c) ==
    (<<get_location(state, inp.from_taxi_index)>> \o
     compute_shortest_path(graph, state, inp.from_taxi_index, c).cells)
        [Max(0, get_fuel(state, inp.from_taxi_index) - 1) + 1]

\* C19: find_transfer_point_h1 returns, for the first candidate of minimal shortfall,
\* the candidate itself when the shortfall is 0 and otherwise the cell at step
\* fuel - 1 of the sender's shortest path toward that candidate.
C19_H1Choice ==
    pc \in {"h1", "h2", "optimal"} =>
        ret.h1 = IF H1Shortfall(H1Chosen) = 0 THEN H1Chosen ELSE H1StepCell(H1Chosen)

\* the same for a sender that has fuel
C19_H1ChoiceWithFuel ==
    (pc \in {"h1", "h2", "optimal"} /\ get_fuel(state, inp.from_taxi_index) >= 1) =>
        ret.h1 = IF H1Shortfall(H1Chosen) = 0 THEN H1Chosen ELSE H1StepCell(H1Chosen)

\* the cells of the sender's shortest path to the passenger's destination
H2Path ==
    compute_shortest_path(graph, state, inp.from_taxi_index,
                          get_destination_cors(state, inp.passenger_index)).cells

\* C20: find_transfer_point_h2 returns the cell at index clamp(fuel - 1, 0, len(path))
\* of [sender's location] + path: the sender's location when fuel <= 1, the
\* destination when fuel - 1 >= len(path), else the cell fuel - 1 moves along the path.
C20_H2Clamped ==
    pc \in {"h2", "optimal"} =>
        LET location == get_location(state, inp.from_taxi_index)
            fuel == get_fuel(state, inp.from_taxi_index)
        IN /\ ret.h2 = (<<location>> \o H2Path)[Max(0, Min(fuel - 1, Len(H2Path))) + 1]
           /\ fuel <= 1 => ret.h2 = location
           /\ fuel - 1 >= Len(H2Path) =>
                 ret.h2 = get_destination_cors(state, inp.passenger_index)
           /\ (fuel > 1 /\ fuel - 1 < Len(H2Path)) =>
                 /\ ret.h2 = H2Path[fuel - 1]
                 /\ Dist(graph, location, ret.h2) = fuel - 1
                 /\ Dist(graph, ret.h2, get_destination_cors(state, inp.passenger_index))
                       = Len(H2Path) - (fuel - 1)

\* a sender with fuel for some of the way: H2 stops it between its location and
\* the destination
C20_Witness ==
    /\ pc = "h2"
    /\ get_fuel(state, inp.from_taxi_index) >= 2
    /\ Len(H2Path) > get_fuel(state, inp.from_taxi_index)
    /\ ret.h2 # get_location(state, inp.from_taxi_index)
    /\ ret.h2 # get_destination_cors(state, inp.passenger_index)
    /\ ret.h2 = H2Path[get_fuel(state, inp.from_taxi_index) - 1]

-----------------------------------------------------------------------------
(* Claims on Controller.transfer_passenger and the execution loop, under SpecCollab *)

OnlyMoves(q) == \A k \in 1 .. Len(q) : q[k] \in 0 .. 3

\* the queue is some moves and then the one action last
MovesThen(q, last) == q # <<>> /\ q[Len(q)] = last /\ OnlyMoves(SubSeq(q, 1, Len(q) - 1))

\* C21: in transfer_passenger the sender's dropoff is handed to the environment
\* before the receiver's pickup: during the first drain the receiver's queue holds
\* moves only while the sender's dropoff is the last action of its queue or already
\* taken from it, the pickup is queued only once the sender's queue is empty, and at
\* the return the passenger is assigned to the receiver, not to the sender, and both
\* queues are empty.
C21_TransferOrder ==
    LET from == ret.closest_taxi + 1
        to == (1 - ret.closest_taxi) + 1
    IN /\ pc = "handoff" =>
             /\ OnlyMoves(taxis[to].actions_queue)
             /\ taxis[from].actions_queue = <<>> \/ MovesThen(taxis[from].actions_queue, ActDropoff(0))
             /\ ~ Contains(taxis[from].assigned_passengers, 0)
       /\ pc = "receive" =>
             /\ taxis[from].actions_queue = <<>>
             /\ taxis[to].actions_queue = <<>> \/ MovesThen(taxis[to].actions_queue, ActPickup)
             /\ ~ Contains(taxis[from].assigned_passengers, 0)
             /\ Contains(taxis[to].assigned_passengers, 0)

\* transfer_passenger returned after a hand-off in which both taxis moved: the
\* receiver has picked the passenger up where the sender dropped it
C21_Witness ==
    /\ pc = "receive"
    /\ AllQueuesEmpty
    /\ ret.transfer_point # inp.start.taxis_locations[1]
    /\ ret.transfer_point # inp.start.taxis_locations[2]
    /\ state.passengers_status[1] = Riding(1 - ret.closest_taxi)
    /\ taxis[(1 - ret.closest_taxi) + 1].assigned_passengers = <<0>>
    /\ taxis[ret.closest_taxi + 1].assigned_passengers = <<>>

\* C22: in every iteration of both execution loops the map handed to the step
\* function has an entry for exactly the taxis whose queue was not empty, the head
\* of that queue (south, 0, included); each of these queues loses its head, no other
\* queue changes, and the map is never empty.
C22_StepMap ==
    [][nsteps' = nsteps + 1 =>
          /\ DOMAIN ret' = {i \in 0 .. Len(taxis) - 1 : taxis[i + 1].actions_queue # <<>>}
          /\ DOMAIN ret' # {}
          /\ \A i \in DOMAIN ret' :
                /\ ret'[i] = taxis[i + 1].actions_queue[1]
                /\ taxis[i + 1].actions_queue = <<ret'[i]>> \o taxis'[i + 1].actions_queue
          /\ \A i \in (0 .. Len(taxis) - 1) \ DOMAIN ret' : taxis'[i + 1] = taxis[i + 1]
          /\ \A k \in 1 .. Len(taxis) :
                /\ taxis'[k].assigned_passengers = taxis[k].assigned_passengers
                /\ taxis'[k].communication_channel = taxis[k].communication_channel]_vars

\* a step whose map had south for taxi 1 only, taxi 0 having run out of actions
\* one step earlier
C22_Witness ==
    /\ pc = "loop"
    /\ nsteps = 2
    /\ Len(inp.queues[1]) = 1
    /\ Len(inp.queues[2]) = 3
    /\ DOMAIN ret = {1}
    /\ ret[1] = 0
    /\ taxis[2].actions_queue = <<inp.queues[2][3]>>

\* C23: in collaboration_case every phase is drained before the next decision:
\* whenever the function moves on (allocation, transfer point, receiver's pickup,
\* final dropoff, return) or an action is added to a queue, every queue is empty.
C23_PhasesDrained ==
    [][(\/ pc' # pc
        \/ ret'.transfer_point # ret.transfer_point
        \/ \E k \in 1 .. Len(taxis) :
              Len(taxis'[k].actions_queue) > Len(taxis[k].actions_queue))
          => \A k \in 1 .. Len(taxis) : taxis[k].actions_queue = <<>>]_vars

\* the final dropoff is queued after three phases that each took steps to drain,
\* the first of them by one taxi only
C23_Witness ==
    /\ pc = "dropoff"
    /\ nsteps >= 4
    /\ ret.transfer_point # inp.start.taxis_locations[ret.closest_taxi + 1]
    /\ ret.transfer_point # inp.start.taxis_locations[(1 - ret.closest_taxi) + 1]
    /\ inp.start.passengers_start_location[1] # inp.start.taxis_locations[ret.closest_taxi + 1]
    /\ Len(taxis[(1 - ret.closest_taxi) + 1].actions_queue) >= 2

-----------------------------------------------------------------------------
(* SpecController: Controller.allocate_passengers and then                   *)
(* Controller.pickup_passengers on freshly built taxis and two waiting       *)
(* passengers, each call being one action; nsteps counts the calls of        *)
(* taxi_env.step that pickup_passengers made.                                *)

\* costs.index(min(costs)), as a position of the list: the first least cost
IndexOfMin(costs) ==
    CHOOSE k \in 1 .. Len(costs) :
        /\ \A j \in 1 .. Len(costs) : costs[k] <= costs[j]
        /\ \A j \in 1 .. k - 1 : costs[j] > costs[k]

\* the loop of allocate_passengers over the passengers i, i+1, ...
RECURSIVE AllocateScan(_, _, _, _)
AllocateScan(g, st, txs, i) ==
    IF i >= Len(st.passengers_status) THEN txs
    ELSE AllocateScan(g, st,
            [txs EXCEPT ![IndexOfMin([k \in 1 .. Len(txs) |->
                                         pickup_cost(g, st, txs[k], k - 1, i)])]
                            .assigned_passengers = Append(@, i)],
            i + 1)

\* Controller.allocate_passengers: the taxis afterwards
allocate_passengers(g, st, txs) == AllocateScan(g, st, txs, 0)

\* Controller.execute_all_actions as a whole: the state and the taxis when no
\* taxi has an action left, and the number n of steps made
RECURSIVE execute_all_actions(_, _, _, _)
execute_all_actions(d, st, txs, n) ==
    IF any_actions_left(txs)
    THEN execute_all_actions(d, env_step(d, st, next_step_map(txs), 0), pop_heads(txs), n + 1)
    ELSE [state |-> st, taxis |-> txs, steps |-> n]

\* Controller.pickup_passengers: every taxi queues its pickups, then all is executed
pickup_passengers(d, g, st, txs) ==
    execute_all_actions(d, st,
        [k \in 1 .. Len(txs) |-> pickup_multiple_passengers(g, st, txs[k], k - 1)], 0)

ControllerShapes == {<<Map1x3, 2>>, <<Map1x3, 3>>, <<Map2x2, 2>>}

ControllerInit ==
    /\ \E sh \in ControllerShapes :
          /\ desc = sh[1]
          /\ graph = EnvGraph(desc)
          /\ \E locs \in [1 .. sh[2] -> Cells(graph)], p \in [1 .. 2 -> Cells(graph)],
                fs \in [1 .. sh[2] -> {1, MaxFuel}] :
                state = [taxis_locations |-> locs, fuels |-> fs,
                         passengers_start_location |-> p, passengers_destinations |-> p,
                         passengers_status |-> <<Waiting, Waiting>>]
    /\ taxis = [k \in 1 .. Len(state.fuels) |-> NewTaxi]
    /\ inp = [start |-> state]
    /\ ret = [before |-> taxis]
    /\ nsteps = 0
    /\ pc = "start"

\* controller.allocate_passengers()
AllocatePassengers ==
    /\ pc = "start"
    /\ taxis' = allocate_passengers(graph, state, taxis)
    /\ ret' = [before |-> taxis]
    /\ pc' = "allocated"
    /\ UNCHANGED <<desc, graph, state, inp, nsteps>>

\* controller.pickup_passengers()
PickupPassengers ==
    /\ pc = "allocated"
    /\ \E after \in {pickup_passengers(desc, graph, state, taxis)} :
          /\ state' = after.state
          /\ taxis' = after.taxis
          /\ nsteps' = nsteps + after.steps
    /\ ret' = [before |-> taxis]
    /\ pc' = "picked_up"
    /\ UNCHANGED <<desc, graph, inp>>

ControllerNext == AllocatePassengers \/ PickupPassengers

SpecController == ControllerInit /\ [][ControllerNext]_vars

-----------------------------------------------------------------------------
(* SpecRounds: the allocation rounds of decentralized_control (lines 24-32)  *)
(* for two passengers, one round after the other; ret.before keeps the taxis *)
(* as they were when the round of passenger inp.passenger_index began.       *)

RoundShapes == {<<Map1x3, 2>>, <<Map1x3, 3>>, <<Map2x2, 2>>}

RoundsInit ==
    /\ \E sh \in RoundShapes :
          /\ desc = sh[1]
          /\ graph = EnvGraph(desc)
          /\ \E locs \in [1 .. sh[2] -> Cells(graph)], p \in [1 .. 2 -> Cells(graph)] :
                state = [taxis_locations |-> locs, fuels |-> [k \in 1 .. sh[2] |-> MaxFuel],
                         passengers_start_location |-> p, passengers_destinations |-> p,
                         passengers_status |-> <<Waiting, Waiting>>]
    /\ taxis = [k \in 1 .. Len(state.fuels) |-> NewTaxi]
    /\ inp = [passenger_index |-> 0, start |-> state]
    /\ ret = [picked_up_by |-> -1, before |-> taxis]
    /\ nsteps = 0
    /\ pc = [phase |-> "bids", k |-> 0]

\* line 25: the loop goes on to the next passenger
NextPassenger ==
    /\ pc.phase = "plan_pickup"
    /\ inp.passenger_index + 1 < Len(state.passengers_status)
    /\ inp' = [inp EXCEPT !.passenger_index = @ + 1]
    /\ ret' = [ret EXCEPT !.before = taxis]
    /\ pc' = [phase |-> "bids", k |-> 0]
    /\ UNCHANGED <<desc, graph, state, taxis, nsteps>>

RoundsNext == BroadcastBid \/ Decide \/ NextPassenger

SpecRounds == RoundsInit /\ [][RoundsNext]_vars

\* what it costs taxi k to reach the passenger of the round: from the place of the
\* passenger it was assigned last, from its own location when it has none
BidOf(k) ==
    LET assigned == ret.before[k].assigned_passengers
    IN Dist(graph,
            IF assigned # <<>> THEN state.passengers_start_location[assigned[Len(assigned)] + 1]
            ELSE state.taxis_locations[k],
            state.passengers_start_location[inp.passenger_index + 1])

\* the lowest-indexed taxi among those of minimal bid
RoundWinner ==
    CHOOSE k \in 1 .. Len(taxis) :
        \A j \in 1 .. Len(taxis) : BidOf(k) < BidOf(j) \/ (BidOf(k) = BidOf(j) /\ k <= j)

\* C24: after the allocation round of passenger i exactly one taxi has appended i to
\* its assignment list, the lowest-indexed one of minimal pickup cost; no other list
\* changed and every communication channel is empty.
C24_RoundAssignsOnce ==
    pc.phase = "plan_pickup" =>
        \A k \in 1 .. Len(taxis) :
            /\ taxis[k].assigned_passengers =
                  IF k = RoundWinner
                  THEN Append(ret.before[k].assigned_passengers, inp.passenger_index)
                  ELSE ret.before[k].assigned_passengers
            /\ taxis[k].communication_channel = <<>>
            /\ taxis[k].actions_queue = ret.before[k].actions_queue

\* the second round, won by taxi 0 on a tie with taxi 1: taxi 0 bids from its first
\* passenger's place, from its own location its bid would have been another
C24_Witness ==
    /\ pc.phase = "plan_pickup"
    /\ inp.passenger_index = 1
    /\ taxis[1].assigned_passengers = <<0, 1>>
    /\ BidOf(1) = BidOf(2)
    /\ BidOf(1) > 0
    /\ Dist(graph, state.taxis_locations[1], state.passengers_start_location[2]) # BidOf(1)

-----------------------------------------------------------------------------
(* Claims on the negotiation of the decentralized taxis, under SpecDecentralized *)

\* the taxis that answered the sender's help-request
Responders == {j \in 0 .. Len(taxis) - 1 : j # ret.sender}

\* <<cost, optimal_point, distance>> of the sender for the path-response of taxi j
ResponseScore(j) ==
    find_best_transfer_point(graph, ret.at_transfer, ret.sender, j, inp.passenger_index,
        compute_shortest_path(graph, ret.at_transfer, j,
            get_destination_cors(ret.at_transfer, inp.passenger_index)).cells,
        get_fuel(ret.at_transfer, j))

\* the gate: the sender's path cost to the destination minus its fuel
FeasibilityGate ==
    Dist(graph, get_location(ret.at_transfer, ret.sender),
         get_destination_cors(ret.at_transfer, inp.passenger_index))
        - get_fuel(ret.at_transfer, ret.sender)

PassGate == {j \in Responders : ResponseScore(j)[3] <= FeasibilityGate}

\* C25: the helper set_transfer_point selects is a responder of minimal cost among
\* the responders whose distance passes the gate, whatever the order of the
\* responses; the sender stays selected only when no responder passes the gate.
C25_MinCostAmongFeasible ==
    ret.sender # -1 =>
        IF PassGate = {} THEN ret.helping_taxi = ret.sender
        ELSE /\ ret.helping_taxi \in PassGate
             /\ \A j \in PassGate : ResponseScore(ret.helping_taxi)[1] <= ResponseScore(j)[1]

-----------------------------------------------------------------------------
(* SpecNegotiate: lines 41-60 of decentralized_control with two passengers,  *)
(* from the state its allocation rounds and pickup phase (lines 24-39) leave *)
(* when every passenger stood at the cell of the taxi that won it, so that   *)
(* the pickups took no move: the passengers ride their taxis, unless the     *)
(* taxi has no fuel and its pickup did nothing; the queues and the channels  *)
(* are empty and nsteps is the number of steps of the pickup phase. With     *)
(* three taxis the first two are assigned a passenger each, for one          *)
(* destination, and the third has all its fuel.                              *)

NegShapes == {<<Map1x3, 2>>, <<Map1x3, 3>>}

\* the lowest index of minimal bid, bid being the sequence of the taxis' bids
FirstMinimal(bid) ==
    CHOOSE k \in 1 .. Len(bid) :
        \A j \in 1 .. Len(bid) : bid[k] < bid[j] \/ (bid[k] = bid[j] /\ k <= j)

\* the winners of the two allocation rounds for taxis at locs, passengers at p
Winner0(g, locs, p) == FirstMinimal([k \in 1 .. Len(locs) |-> Dist(g, locs[k], p[1])])

Winner1(g, locs, p) ==
    FirstMinimal([k \in 1 .. Len(locs) |->
                     Dist(g, IF k = Winner0(g, locs, p) THEN p[1] ELSE locs[k], p[2])])

\* lines 35-39: every taxi queues its pickups, then all the actions are executed
PickupPhase(d, g, st, txs) ==
    execute_all_actions(d, st,
        [k \in 1 .. Len(txs) |-> pickup_multiple_passengers(g, st, txs[k], k - 1)], 0)

NegInit ==
    /\ \E sh \in NegShapes :
          /\ desc = sh[1]
          /\ graph = EnvGraph(desc)
          /\ \E locs \in [1 .. sh[2] -> Cells(graph)], w0 \in 1 .. sh[2], w1 \in 1 .. sh[2] :
                /\ w0 = Winner0(graph, locs, <<locs[w0], locs[w1]>>)
                /\ w1 = Winner1(graph, locs, <<locs[w0], locs[w1]>>)
                /\ sh[2] = 3 => (w0 = 1 /\ w1 = 2)
                /\ \E fs \in [1 .. sh[2] -> 0 .. MaxFuel], d \in [1 .. 2 -> Cells(graph)] :
                      /\ sh[2] = 3 => (d[1] = d[2] /\ fs[3] = MaxFuel)
                      /\ \E after \in {PickupPhase(desc, graph,
                                          [taxis_locations |-> locs, fuels |-> fs,
                                           passengers_start_location |-> <<locs[w0], locs[w1]>>,
                                           passengers_destinations |-> d,
                                           passengers_status |-> <<Waiting, Waiting>>],
                                          [k \in 1 .. sh[2] |->
                                              [NewTaxi EXCEPT !.assigned_passengers =
                                                  (IF k = w0 THEN <<0>> ELSE <<>>)
                                                  \o (IF k = w1 THEN <<1>> ELSE <<>>)]])} :
                            /\ state = after.state
                            /\ taxis = after.taxis
                            /\ nsteps = after.steps
    /\ inp = [passenger_index |-> 0, start |-> state]
    /\ ret = [picked_up_by |-> -1, sender |-> -1, helping_taxi |-> -1, transfer_point |-> <<>>,
              at_transfer |-> state]
    /\ pc = [phase |-> "help", k |-> 0]

NegNext == RequestHelp \/ Respond \/ Negotiate \/ IntermediatePickup

SpecNegotiate == NegInit /\ [][NegNext]_vars

\* what the step appended to the channel of taxi j (1-based), the channel having
\* been extended only
Delivered_To(j) ==
    SubSeq(taxis'[j].communication_channel, Len(taxis[j].communication_channel) + 1,
           Len(taxis'[j].communication_channel))

\* the step is the call of set_transfer_point by taxi pc.k
NegotiateStep == pc.phase = "negotiate" /\ pc' # pc

\* C26: set_transfer_point of a taxi with messages in its inbox and a passenger
\* assigned queues its moves to the chosen transfer point and one dropoff of its head
\* passenger, removes that passenger from its list, clears its inbox, and returns an
\* offer exactly when the helper chosen is another taxi, the offer naming the
\* helper, the transfer point and the passenger handed over; with an empty inbox or
\* nothing assigned it changes nothing and returns no message.
C26_TransferOffer ==
    [][NegotiateStep =>
          LET i == pc.k
              tx == taxis[pc.k + 1]
              after == taxis'[pc.k + 1]
              others == (1 .. Len(taxis)) \ {pc.k + 1}
          IN IF tx.communication_channel # <<>> /\ tx.assigned_passengers # <<>>
             THEN /\ pc'.phase # "raised"
                  /\ ret'.transfer_point \in Cells(graph)
                  /\ after.actions_queue = tx.actions_queue
                        \o compute_shortest_path(graph, state, i, ret'.transfer_point).actions
                        \o <<ActDropoff(tx.assigned_passengers[1])>>
                  /\ after.assigned_passengers = Tail(tx.assigned_passengers)
                  /\ after.communication_channel = <<>>
                  /\ \A j \in others :
                        /\ taxis'[j].actions_queue = taxis[j].actions_queue
                        /\ taxis'[j].assigned_passengers = taxis[j].assigned_passengers
                        /\ Delivered_To(j) =
                              IF ret'.helping_taxi = j - 1
                              THEN << [type |-> "transfer_message", helping_taxi |-> j - 1,
                                       transfer_point |-> ret'.transfer_point,
                                       taxi_index |-> i,
                                       passenger_index |-> tx.assigned_passengers[1]] >>
                              ELSE <<>>
             ELSE taxis' = taxis]_vars

IsHelpRequest(message) == TypeOf(message) = "help_request"

IsNoHelpRequest(message) == TypeOf(message) # "help_request"

\* the path-response the claim expects of taxi i to the help-request
ExpectedResponse(i, request) ==
    [type |-> "path_response", taxi_index |-> i,
     passenger_index |-> request.passenger_index,
     shortest_path |-> compute_shortest_path(graph, state, i,
                           get_destination_cors(state, request.passenger_index)).cells,
     recipient_taxi_index |-> request.taxi_index,
     taxi_fuel |-> get_fuel(state, i)]

\* C27: passenger_transfer_message answers every help-request of the inbox with one
\* path-response, addressed to the requester and carrying the responder's index, its
\* fuel and its shortest path to the passenger's destination; the inbox keeps exactly
\* its other messages, in their order, and the queue and the assignment list of the
\* responder do not change.
C27_PathResponses ==
    [][(pc.phase = "respond" /\ pc' # pc) =>
          LET i == pc.k
              tx == taxis[pc.k + 1]
              after == taxis'[pc.k + 1]
              requests == SelectSeq(tx.communication_channel, IsHelpRequest)
          IN /\ after.communication_channel
                   = SelectSeq(tx.communication_channel, IsNoHelpRequest)
             /\ after.actions_queue = tx.actions_queue
             /\ after.assigned_passengers = tx.assigned_passengers
             /\ \A j \in (1 .. Len(taxis)) \ {pc.k + 1} :
                   /\ taxis'[j].actions_queue = taxis[j].actions_queue
                   /\ taxis'[j].assigned_passengers = taxis[j].assigned_passengers
                   /\ Delivered_To(j) =
                         LET mine == SelectSeq(requests, LAMBDA r : r.taxi_index = j - 1)
                         IN [k \in 1 .. Len(mine) |-> ExpectedResponse(i, mine[k])]
             /\ \A k \in 1 .. Len(requests) :
                   /\ requests[k].taxi_index # i
                   /\ Len(ExpectedResponse(i, requests[k]).shortest_path)
                         = Dist(graph, get_location(state, i),
                                get_destination_cors(state, requests[k].passenger_index))]_vars

\* both taxis asked for help and both have answered: taxi 1 kept the response of
\* taxi 0, which was in its inbox beside the request of taxi 0 when it answered
C27_Witness ==
    /\ pc = [phase |-> "negotiate", k |-> 0]
    /\ Len(taxis) = 2
    /\ Len(taxis[1].communication_channel) = 1
    /\ taxis[1].communication_channel[1] = ExpectedResponse(1, [taxi_index |-> 0, passenger_index |-> taxis[1].assigned_passengers[1]])
    /\ Len(taxis[2].communication_channel) = 1
    /\ taxis[2].communication_channel[1] = ExpectedResponse(0, [taxi_index |-> 1, passenger_index |-> taxis[2].assigned_passengers[1]])
    /\ taxis[2].communication_channel[1].shortest_path # <<>>

\* the moves of taxi i from its location to the transfer points of the offers
\* k, k+1, ... of the inbox, one path after the other
RECURSIVE OfferedMoves(_, _, _)
OfferedMoves(i, offers, k) ==
    IF k > Len(offers) THEN <<>>
    ELSE compute_shortest_path(graph, state, i, offers[k].transfer_point).actions
         \o OfferedMoves(i, offers, k + 1)

RECURSIVE OfferedDistance(_, _, _)
OfferedDistance(i, offers, k) ==
    IF k > Len(offers) THEN 0
    ELSE Dist(graph, get_location(state, i), offers[k].transfer_point)
         + OfferedDistance(i, offers, k + 1)

\* C28: intermediate_pickup appends, for each transfer-offer of the inbox, the
\* shortest-path moves from the taxi's location to the offered point, and no pickup
\* or dropoff; it appends the offered passengers to its assignment list and leaves
\* its inbox empty; with an empty inbox nothing changes.
C28_IntermediatePickup ==
    [][(pc.phase = "intermediate" /\ pc' # pc) =>
          LET i == pc.k
              tx == taxis[pc.k + 1]
              after == taxis'[pc.k + 1]
              offers == tx.communication_channel
          IN /\ \A k \in 1 .. Len(offers) : TypeOf(offers[k]) = "transfer_message"
             /\ after.actions_queue = tx.actions_queue \o OfferedMoves(i, offers, 1)
             /\ OnlyMoves(OfferedMoves(i, offers, 1))
             /\ Len(after.actions_queue) = Len(tx.actions_queue) + OfferedDistance(i, offers, 1)
             /\ after.assigned_passengers = tx.assigned_passengers
                   \o [k \in 1 .. Len(offers) |-> offers[k].passenger_index]
             /\ after.communication_channel = <<>>
             /\ offers = <<>> => after = tx
             /\ \A j \in (1 .. Len(taxis)) \ {pc.k + 1} : taxis'[j] = taxis[j]
             /\ state' = state]_vars

\* the third taxi has taken the offers of the two others: it is queued to move and
\* has both passengers assigned
C28_Witness ==
    /\ pc.phase = "exec_transfer"
    /\ Len(taxis) = 3
    /\ Len(taxis[3].assigned_passengers) = 2
    /\ taxis[3].actions_queue # <<>>
    /\ OnlyMoves(taxis[3].actions_queue)
    /\ taxis[3].communication_channel = <<>>

-----------------------------------------------------------------------------
(* Claim on the rounds of decentralized_control as a whole *)

\* the type of message the handler of the phase consumes; a bid has no type
Handles(phase) ==
    IF phase = "decide" THEN "None"
    ELSE IF phase = "respond" THEN "help_request"
    ELSE IF phase = "negotiate" THEN "path_response"
    ELSE IF phase = "intermediate" THEN "transfer_message"
    ELSE "nothing"

IsPrefix(a, b) == Len(a) <= Len(b) /\ SubSeq(b, 1, Len(a)) = a

\* the messages of the channel that the handler of the phase does not consume
NotHandled(channel, phase) == SelectSeq(channel, LAMBDA m : TypeOf(m) # Handles(phase))

\* C29: a message leaves a channel only in a handler call of its recipient, the call
\* of the round made for its type, which takes all messages of that type at once; so
\* no message is processed twice, and after the rounds (allocation, help-request,
\* path-response, negotiation, intermediate pickup) every channel is empty.
C29_OneShotRounds ==
    /\ [][\A j \in 1 .. Len(taxis) :
            IF j = pc.k + 1 /\ Handles(pc.phase) # "nothing"
            THEN \/ taxis'[j].communication_channel
                      = NotHandled(taxis[j].communication_channel, pc.phase)
                 \/ /\ pc.phase = "negotiate"
                    /\ taxis[j].assigned_passengers = <<>>
                    /\ taxis'[j].communication_channel = taxis[j].communication_channel
            ELSE IsPrefix(taxis[j].communication_channel, taxis'[j].communication_channel)]_vars
    /\ [](pc.phase \in {"exec_transfer", "final", "exec_final", "done"} =>
             \A j \in 1 .. Len(taxis) : taxis[j].communication_channel = <<>>)

(* Claim on the result of find_optimal_transfer_point, under SpecTransfer *)

\* C30: find_optimal_transfer_point returns, for every configuration, the sender's
\* fuel 0 included, a cell of the grid that the sender reaches within
\* max(0, fuel - 1) moves; the result is never the empty list.
C30_OptimalIsReachableCell ==
    pc = "optimal" =>
        /\ ret.optimal.best_transfer_point # <<>>
        /\ ret.optimal.best_transfer_point \in Cells(graph)
        /\ Dist(graph, get_location(state, inp.from_taxi_index),
                ret.optimal.best_transfer_point)
              <= Max(0, get_fuel(state, inp.from_taxi_index) - 1)

(* Claim on the failing branch of collaboration_case, under SpecCollab *)

\* C31: when collaboration_case fails because find_closest_taxi returned -1, the
\* assignment list and the action queue of every taxi are what they were before
\* the call, so that the calls made one after the other on the same taxis do not
\* add up assignments.
C31_FailureLeavesAgents ==
    (pc = "done" /\ ret.closest_taxi = -1) =>
        \A k \in 1 .. Len(taxis) :
            /\ taxis[k].assigned_passengers = inp.before[k].assigned_passengers
            /\ taxis[k].actions_queue = inp.before[k].actions_queue

(* Claims on the moves set_transfer_point queues *)

\* how many of the actions of the queue are moves
MoveCount(q) == Cardinality({k \in 1 .. Len(q) : q[k] \in 0 .. 3})

\* C32: the moves set_transfer_point queues for the requesting taxi are at most
\* its fuel - 1 (no move when it has no fuel), one unit being kept for the dropoff,
\* whatever the path-responses are, also when no responder passes the gate.
C32_MovesWithinFuel ==
    [][(/\ NegotiateStep
        /\ pc'.phase # "raised"
        /\ taxis[pc.k + 1].communication_channel # <<>>
        /\ taxis[pc.k + 1].assigned_passengers # <<>>)
       => MoveCount(taxis'[pc.k + 1].actions_queue) - MoveCount(taxis[pc.k + 1].actions_queue)
             <= Max(0, get_fuel(state, pc.k) - 1)]_vars

\* the messages of the channel of the given type, in order
OfType(channel, type) == SelectSeq(channel, LAMBDA message : TypeOf(message) = type)

\* C33: when set_transfer_point runs on a taxi that holds a passenger, asked for
\* help (it has path-responses) and has in its inbox a transfer-offer of a taxi
\* that negotiated before it, the call completes without error, its selection is
\* the one made from the path-responses alone, and the offer is still in the inbox
\* for intermediate_pickup.
C33_OfferNotScored ==
    [][(/\ NegotiateStep
        /\ taxis[pc.k + 1].assigned_passengers # <<>>
        /\ OfType(taxis[pc.k + 1].communication_channel, "path_response") # <<>>
        /\ OfType(taxis[pc.k + 1].communication_channel, "transfer_message") # <<>>)
       => LET tx == taxis[pc.k + 1]
              responses == [tx EXCEPT !.communication_channel =
                                          OfType(@, "path_response")]
          IN /\ pc'.phase # "raised"
             /\ ret'.sender = pc.k
             /\ ret'.helping_taxi = Selection(graph, state, responses, pc.k).helping_taxi_index
             /\ ret'.transfer_point = Selection(graph, state, responses, pc.k).transfer_point
             /\ OfType(taxis'[pc.k + 1].communication_channel, "transfer_message")
                   = OfType(tx.communication_channel, "transfer_message")]_vars

(* Claim on the plans queued by the planning calls, under SpecTaxi *)

\* the graph has an edge between the two cells
IsEdge(g, a, b) ==
    /\ a \in Cells(g)
    /\ b \in Cells(g)
    /\ \E j \in 1 .. Len(g.adj[cors_to_node(g.cols, a[1], a[2])]) :
          g.adj[cors_to_node(g.cols, a[1], a[2])][j] = cors_to_node(g.cols, b[1], b[2])

\* the target of the path the last planning call queued, <<>> when it queued none
\* (send_taxi_to_pickup and send_taxi_to_dropoff of a taxi with nothing assigned)
LastTarget ==
    IF pc = "raised" THEN <<>>
    ELSE IF inp.op = "send_taxi_to_point" THEN inp.arg
    ELSE IF inp.op = "send_taxi_to_pickup"
    THEN (IF ret.before.assigned_passengers = <<>> /\ inp.arg = None THEN <<>>
          ELSE state.passengers_start_location[
                   (IF inp.arg # None /\ inp.arg # 0 THEN inp.arg
                    ELSE ret.before.assigned_passengers[1]) + 1])
    ELSE IF inp.op = "send_taxi_to_dropoff"
    THEN (IF ret.before.assigned_passengers = <<>> THEN <<>>
          ELSE IF inp.arg # <<>> THEN inp.arg
          ELSE state.passengers_destinations[ret.before.assigned_passengers[1] + 1])
    ELSE <<>>

\* the moves among the actions of the queue, in order
MovesOf(q) == SelectSeq(q, LAMBDA a : a \in 0 .. 3)

\* the cells a taxi is at while the environment takes it one cell per move of
\* its queue, from where it stands
Drain(st, tx) == <<get_location(st, 0)>> \o Walk(get_location(st, 0), MovesOf(tx.actions_queue))

\* C34: after every planning call that queued a path, whatever was queued before
\* and however much of it was drained, the moves of the queue taken one cell each
\* from the taxi's location all go along edges of the graph and end at the target
\* of the path queued last.
C34_PlanMatchesExecution ==
    LastTarget # <<>> =>
        /\ \A k \in 1 .. Len(Drain(state, taxis[1])) - 1 :
              IsEdge(graph, Drain(state, taxis[1])[k], Drain(state, taxis[1])[k + 1])
        /\ Drain(state, taxis[1])[Len(Drain(state, taxis[1]))] = LastTarget

=============================================================================
